---------------------------- MODULE Spec2Model ----------------------------
(***************************************************************************)
(* A model of the complaint analysis pipeline: the ingestion agent (the    *)
(* Validator), the understanding agent (the Fingerprint Generator), the    *)
(* discovery agent (the Clustering Engine), the priority agent (the        *)
(* Priority Scorer), the explainability agent and the orchestrator that    *)
(* sequences them over the shared tables complaints, problems,             *)
(* complaint_problems, agent_logs and analysis_runs.                       *)
(*                                                                         *)
(* JavaScript strings are TLA+ strings; a character is a string of length  *)
(* one, read with SubSeq(s, i, i).                                         *)
(***************************************************************************)
EXTENDS Integers, Sequences, FiniteSets, TLC

(***************************************************************************)
(* Generic helpers on strings and sequences.                               *)
(***************************************************************************)

CharAt(s, i) == SubSeq(s, i, i)

Range(f) == {f[i] : i \in DOMAIN f}

\* The sequence f with every element evaluated (a value, not a rule)
Materialize(f) == f \o <<>>

Max(a, b) == IF a >= b THEN a ELSE b

Min(a, b) == IF a <= b THEN a ELSE b

\* The white space characters of String.prototype.trim and of the regular
\* expression class \s that the model's texts use.
WhiteSpace == {" ", "\t", "\n", "\r"}

\* The line terminators, which the regular expression atom "." never matches.
LineTerminators == {"\n", "\r"}

UpperCase == "ABCDEFGHIJKLMNOPQRSTUVWXYZ"

LowerCase == "abcdefghijklmnopqrstuvwxyz"

\* String.prototype.toLowerCase, one character.
ToLowerChar(c) ==
  IF \E i \in 1..Len(UpperCase) : CharAt(UpperCase, i) = c
  THEN CharAt(LowerCase, CHOOSE i \in 1..Len(UpperCase) : CharAt(UpperCase, i) = c)
  ELSE c

RECURSIVE toLowerCase(_)
toLowerCase(s) ==
  IF Len(s) = 0 THEN ""
  ELSE ToLowerChar(CharAt(s, 1)) \o toLowerCase(SubSeq(s, 2, Len(s)))

RECURSIVE TrimStart(_)
TrimStart(s) ==
  IF Len(s) > 0 /\ CharAt(s, 1) \in WhiteSpace
  THEN TrimStart(SubSeq(s, 2, Len(s)))
  ELSE s

RECURSIVE TrimEnd(_)
TrimEnd(s) ==
  IF Len(s) > 0 /\ CharAt(s, Len(s)) \in WhiteSpace
  THEN TrimEnd(SubSeq(s, 1, Len(s) - 1))
  ELSE s

\* String.prototype.trim
trim(s) == TrimEnd(TrimStart(s))

\* s.replace(/\s+/g, ' '): every maximal run of white space becomes one space.
RECURSIVE CollapseWhiteSpace(_)
CollapseWhiteSpace(s) ==
  IF Len(s) = 0 THEN ""
  ELSE IF CharAt(s, 1) \in WhiteSpace
       THEN " " \o CollapseWhiteSpace(TrimStart(s))
       ELSE CharAt(s, 1) \o CollapseWhiteSpace(SubSeq(s, 2, Len(s)))

\* s.split(' '): the pieces between single spaces, empty pieces included;
\* the empty string splits into one empty piece.
RECURSIVE SplitFrom(_, _)
SplitFrom(s, piece) ==
  IF Len(s) = 0 THEN <<piece>>
  ELSE IF CharAt(s, 1) = " "
       THEN <<piece>> \o SplitFrom(SubSeq(s, 2, Len(s)), "")
       ELSE SplitFrom(SubSeq(s, 2, Len(s)), piece \o CharAt(s, 1))

split(s) == SplitFrom(s, "")

\* words.join(' ')
RECURSIVE join(_)
join(ws) ==
  IF Len(ws) = 0 THEN ""
  ELSE IF Len(ws) = 1 THEN ws[1]
       ELSE ws[1] \o " " \o join(Tail(ws))

\* String.prototype.includes
includes(s, k) ==
  \E i \in 1..(Len(s) - Len(k) + 1) : SubSeq(s, i, i + Len(k) - 1) = k

(***************************************************************************)
(* The ingestion agent: the Validator.                                     *)
(***************************************************************************)

stopWords ==
  {"the", "is", "at", "which", "on", "a", "an", "and", "or", "but",
   "in", "with", "to", "for", "of", "as", "by", "this", "that"}

MinTextLength == 10

MinWords == 3

SpamRepeat == 6

\* text.trim().toLowerCase(), then replace(/\s+/g, ' ')
NormalizeText(text) == CollapseWhiteSpace(toLowerCase(trim(text)))

\* The filter without its length test
KeepWord_NoLength(word) == word \notin stopWords

KeepWord(word) == Len(word) > 2 /\ word \notin stopWords

\* Array.prototype.filter with the predicate KeepWord
RECURSIVE FilterWords(_)
FilterWords(ws) ==
  IF Len(ws) = 0 THEN <<>>
  ELSE (IF KeepWord(ws[1]) THEN <<ws[1]>> ELSE <<>>) \o FilterWords(Tail(ws))

\* The words filtered before they are lowercased
words_LowercaseLast(text) ==
  LET ws == FilterWords(split(CollapseWhiteSpace(trim(text))))
  IN Materialize([i \in 1..Len(ws) |-> toLowerCase(ws[i])])

\* cleaned_text.split(' ').filter(word => word.length > 2 && !stopWords.has(word))
words(text) == FilterWords(split(NormalizeText(text)))

\* /^(.)\1{5,}/.test(text): the text starts with one character, not a line
\* terminator, followed by at least five more copies of it.
RepeatedStart(text) ==
  /\ Len(text) >= SpamRepeat
  /\ CharAt(text, 1) \notin LineTerminators
  /\ \A i \in 2..SpamRepeat : CharAt(text, i) = CharAt(text, 1)

ReasonTooShort == "Text too short (minimum 10 characters)"

ReasonFewWords == "Not enough meaningful words"

ReasonSpam == "Contains repeated characters (spam detected)"

\* The IngestionOutput the agent computes for {text, location}.
IngestionOutput(text, location) ==
  LET ws == words(text)
      reason == IF Len(text) < MinTextLength THEN ReasonTooShort
                ELSE IF Len(ws) < MinWords THEN ReasonFewWords
                ELSE IF RepeatedStart(text) THEN ReasonSpam
                ELSE ""
  IN [cleaned_text |-> join(ws),
      location |-> trim(location),
      is_valid |-> reason = "",
      reason |-> reason]

(***************************************************************************)
(* State.  The five tables, the clock, one slot per request in flight and  *)
(* the response sent last.  fnArgs and fnResult hold the argument and the  *)
(* successive results of a function applied on its own (the specifications *)
(* SpecValidator, SpecKMeans and SpecPriority).                            *)
(***************************************************************************)
VARIABLES complaints, problems, complaint_problems, agent_logs,
          analysis_runs, problem_seq, now, ticks, pc, local,
          response, fnArgs, fnResult

tables == <<complaints, problems, complaint_problems, agent_logs, analysis_runs>>

pipelineVars == <<complaints, problems, complaint_problems, agent_logs,
                  analysis_runs, problem_seq, now, ticks, pc, local, response>>

fnVars == <<fnArgs, fnResult>>

vars == <<complaints, problems, complaint_problems, agent_logs,
          analysis_runs, problem_seq, now, ticks, pc, local, response,
          fnArgs, fnResult>>

NoValue == "(none)"

\* A complaint's embedding column before the understanding agent has set it
NullEmbedding == <<>>

\* No response yet
NoResponse == [status |-> 0]

(***************************************************************************)
(* The Validator applied on its own to a raw text, then to its own         *)
(* cleaned_text.                                                           *)
(***************************************************************************)

\* Raw texts are built from up to MaxPieces of these pieces.
TextPieces ==
  {"The ", "water  ", "is\t", "pipe\n", "LEAKING ", "my", "aaaaaaa ",
   "\n\n\n\n\n\n", "      "}

MaxPieces == 4

ScenarioA == "Fix"

ScenarioB == "aaaaaaaaa broken pipe everywhere"

ScenarioC == "Water is leaking badly near my house every single day"

RECURSIVE Concat(_)
Concat(ps) == IF Len(ps) = 0 THEN "" ELSE ps[1] \o Concat(Tail(ps))

ValidatorTexts ==
  {Concat(ps) : ps \in UNION {[1..n -> TextPieces] : n \in 0..MaxPieces}}
    \cup {ScenarioA, ScenarioB, ScenarioC}
(***************************************************************************)
(* The discovery agent: k-means over cosine similarity.                    *)
(*                                                                         *)
(* A fingerprint is L2-normalised or all zero.  The model keeps two of the *)
(* 384 dimensions and writes each unit vector scaled by 5, so that (1,0),  *)
(* (0,1) and (0.6,0.8) have integer coordinates.  A centroid is           *)
(* a mean, kept as the pair (sum of the members, number of members).       *)
(* Every coordinate is >= 0, so a cosine similarity is >= 0 and is kept as *)
(* its square, the fraction num / den.                                     *)
(***************************************************************************)

Dim == 2

Zero == Materialize([i \in 1..Dim |-> 0])

Embeddings == {<<0, 0>>, <<5, 0>>, <<0, 5>>, <<3, 4>>}

RECURSIVE DotFrom(_, _, _)
DotFrom(a, b, i) == IF i > Len(a) THEN 0 ELSE a[i] * b[i] + DotFrom(a, b, i + 1)

Dot(a, b) == DotFrom(a, b, 1)

\* cosineSimilarity(a, b), squared: 0 when either magnitude is 0.
cosineSimilarity(a, b) ==
  IF Dot(a, a) = 0 \/ Dot(b, b) = 0
  THEN [num |-> 0, den |-> 1]
  ELSE [num |-> Dot(a, b) * Dot(a, b), den |-> Dot(a, a) * Dot(b, b)]

\* s > t for two squared similarities
SimGreater(s, t) == s.num * t.den > t.num * s.den

\* similarity < 0.999, that is num / den < 998001 / 1000000, that is
\* den - num > 1999 * den / 1000000; the right side is floored in two steps
\* of 1000 to stay within 32-bit integers.
SimBelowThreshold(s) ==
  s.den - s.num >
    ((1999 * (s.den \div 1000)) + ((1999 * (s.den % 1000)) \div 1000)) \div 1000

maxIterations == 20

\* Math.min(Math.max(3, Math.ceil(n / 3)), 8)
numClusters(n) == Min(Max(3, (n + 2) \div 3), 8)

\* The inner forEach over the clusters: the first cluster of highest similarity.
RECURSIVE BestClusterFrom(_, _, _, _, _)
BestClusterFrom(embedding, clusters, idx, bestCluster, bestSimilarity) ==
  IF idx > Len(clusters) THEN bestCluster
  ELSE LET similarity == cosineSimilarity(embedding, clusters[idx].centroid.sum)
       IN IF SimGreater(similarity, bestSimilarity)
          THEN BestClusterFrom(embedding, clusters, idx + 1, idx, similarity)
          ELSE BestClusterFrom(embedding, clusters, idx + 1, bestCluster, bestSimilarity)

\* let bestCluster = 0; let bestSimilarity = -1 (clusters are numbered from 1 here)
BestCluster(embedding, clusters) ==
  BestClusterFrom(embedding, clusters, 1, 1, [num |-> -1, den |-> 1])

RECURSIVE SelectSeq2(_, _, _)
SelectSeq2(cs, clusters, j) ==
  IF Len(cs) = 0 THEN <<>>
  ELSE (IF BestCluster(cs[1].embedding, clusters) = j THEN <<cs[1]>> ELSE <<>>)
         \o SelectSeq2(Tail(cs), clusters, j)

\* An assignment pass that does not empty the clusters first
Assign_NoReset(cs, clusters) ==
  Materialize([j \in 1..Len(clusters) |->
     [clusters[j] EXCEPT !.complaints = @ \o SelectSeq2(cs, clusters, j)]])

\* One assignment pass: every cluster gets the complaints nearest to it.
Assign(cs, clusters) ==
  Materialize([j \in 1..Len(clusters) |->
     [clusters[j] EXCEPT !.complaints = SelectSeq2(cs, clusters, j)]])

RECURSIVE SumEmbeddings(_)
SumEmbeddings(cs) ==
  IF Len(cs) = 0 THEN Zero
  ELSE LET rest == SumEmbeddings(Tail(cs))
       IN Materialize([i \in 1..Dim |-> cs[1].embedding[i] + rest[i]])

NewCentroid(cluster) ==
  [sum |-> SumEmbeddings(cluster.complaints), n |-> Len(cluster.complaints)]

\* A cluster's centroid moves when it has members and the similarity of the
\* old and the new centroid is below 0.999.
CentroidChanged(cluster) ==
  /\ Len(cluster.complaints) > 0
  /\ SimBelowThreshold(cosineSimilarity(cluster.centroid.sum, NewCentroid(cluster).sum))

Recentre(clusters) ==
  Materialize([j \in 1..Len(clusters) |->
     IF CentroidChanged(clusters[j])
     THEN [clusters[j] EXCEPT !.centroid = NewCentroid(clusters[j])]
     ELSE clusters[j]])

RECURSIVE Iterate(_, _, _)
Iterate(cs, clusters, iter) ==
  LET assigned == Assign(cs, clusters)
      changed == \E j \in 1..Len(assigned) : CentroidChanged(assigned[j])
  IN IF ~changed \/ iter + 1 >= maxIterations
     THEN Recentre(assigned)
     ELSE Iterate(cs, Recentre(assigned), iter + 1)

\* The result without the final filter
NonEmpty_KeepAll(clusters) == clusters

\* clusters.filter((c) => c.complaints.length > 0)
RECURSIVE NonEmpty(_)
NonEmpty(clusters) ==
  IF Len(clusters) = 0 THEN <<>>
  ELSE (IF Len(clusters[1].complaints) > 0 THEN <<clusters[1]>> ELSE <<>>)
         \o NonEmpty(Tail(clusters))

\* The seeds Math.random can draw for n complaints and k clusters
Seeds(n, k) == [1..Min(k, n) -> 1..n]

InitialClusters(cs, k, seeds) ==
  Materialize([i \in 1..Min(k, Len(cs)) |->
     [id |-> i - 1,
      complaints |-> <<>>,
      centroid |-> [sum |-> cs[seeds[i]].embedding, n |-> 1]]])

\* kMeansClustering(complaints, k), with the random draws as the argument seeds
kMeansClustering(cs, k, seeds) ==
  IF Len(cs) = 0 THEN <<>>
  ELSE NonEmpty(Iterate(cs, InitialClusters(cs, k, seeds), 0))

(***************************************************************************)
(* The Clustering Engine applied on its own to every list of up to MaxN    *)
(* fingerprinted complaints, under every draw of the seeds.                *)
(***************************************************************************)

MaxN == 4

KMeansInputs ==
  UNION {[1..n -> Embeddings] : n \in 1..MaxN}

KMeansComplaints(es) ==
  Materialize([i \in 1..Len(es) |-> [id |-> i, embedding |-> es[i]]])

(***************************************************************************)
(* The understanding agent: the Fingerprint Generator, reduced to the      *)
(* bands of the first two problem categories (one cell of each band) and   *)
(* L2-normalised to length 5 instead of 1.  The model's texts have         *)
(* fingerprints of rational length, so the normalisation is exact.         *)
(***************************************************************************)

problemCategories ==
  << <<"water", "tap", "supply", "pipe", "leak", "drinking", "dry", "shortage">>,
     <<"road", "street", "pothole", "crack", "damage", "broken", "repair", "pavement">> >>

\* Twice the categoryScore: 1 for a keyword that is a word of the text and
\* 0.5 for every (keyword, word) pair one of which contains the other.
CategoryScore2(ws, category) ==
  2 * Cardinality({i \in DOMAIN category : category[i] \in Range(ws)})
    + Cardinality({ij \in (DOMAIN category) \X (DOMAIN ws) :
                     \/ includes(ws[ij[2]], category[ij[1]])
                     \/ includes(category[ij[1]], ws[ij[2]])})

UnitScale == 5

generateEmbedding(text) ==
  LET ws == split(toLowerCase(text))
      raw == Materialize([c \in 1..Dim |-> CategoryScore2(ws, problemCategories[c])])
      m2 == Dot(raw, raw)
  IN IF m2 = 0 THEN raw
     ELSE LET magnitude == CHOOSE r \in 1..m2 : r * r = m2
          IN Materialize([c \in 1..Dim |-> (UnitScale * raw[c]) \div magnitude])

(***************************************************************************)
(* The orchestrator and the tables.                                        *)
(***************************************************************************)

\* The request slots: at most two requests are in flight at a time.
Procs == {"r1", "r2"}

\* The {text, location} payloads of submit_complaint.
SubmitInputs ==
  {[text |-> "Fix", location |-> ""],
   [text |-> "The water pipe is leaking", location |-> " Ward 1 "],
   [text |-> "Road pothole broken urgent", location |-> ""]}

MaxSubmits == 2

MaxRuns == 2

\* The submissions made where analysis runs overlap
MaxOverlapSubmits == 1

MaxTicks == 1

\* The clock advances by one day or by one week.
TickSteps == {1, 7}

IdleLocal ==
  [action |-> NoValue, text |-> NoValue, location |-> NoValue,
   ingestion |-> NoValue, complaint_id |-> 0, run_id |-> 0,
   totalComplaints |-> 0, log_id |-> 0, clusters |-> <<>>, total |-> 0,
   created |-> 0, ci |-> 0, mi |-> 0, problem_id |-> 0, rows |-> <<>>,
   updated |-> 0, highest |-> 0]

PipelineInit ==
  /\ complaints = <<>>
  /\ problems = {}
  /\ complaint_problems = {}
  /\ agent_logs = <<>>
  /\ analysis_runs = <<>>
  /\ problem_seq = 0
  /\ now = 0
  /\ ticks = 0
  /\ pc = [p \in Procs |-> "idle"]
  /\ local = [p \in Procs |-> IdleLocal]
  /\ response = NoResponse

Init ==
  /\ PipelineInit
  /\ fnArgs = NoValue
  /\ fnResult = <<>>

AllIdle == \A p \in Procs : pc[p] = "idle"

\* supabase.from('agent_logs').insert({id, agent_name, status: 'running', input_data})
LogInsert(agent_name, input_data) ==
  Append(agent_logs,
         [id |-> Len(agent_logs) + 1, agent_name |-> agent_name,
          status |-> "running", input_data |-> input_data,
          output_data |-> NoValue])

\* ....update({status: 'completed', output_data}).eq('id', logId)
LogComplete(logs, log_id, output_data) ==
  [logs EXCEPT ![log_id].status = "completed", ![log_id].output_data = output_data]

NumSubmits == Cardinality({i \in DOMAIN agent_logs : agent_logs[i].agent_name = "ingestion"})

(***************************************************************************)
(* submit_complaint                                                        *)
(***************************************************************************)

\* The request arrives and the orchestrator calls the ingestion agent, which
\* inserts its log entry.
SubmitComplaint(p, inp) ==
  /\ pc[p] = "idle"
  /\ NumSubmits < MaxSubmits
  /\ agent_logs' = LogInsert("ingestion", inp)
  /\ local' = [local EXCEPT ![p] = [IdleLocal EXCEPT !.action = "submit_complaint",
                                       !.text = inp.text,
                                       !.location = inp.location,
                                       !.log_id = Len(agent_logs) + 1]]
  /\ pc' = [pc EXCEPT ![p] = "ingestion"]
  /\ UNCHANGED <<complaints, problems, complaint_problems, analysis_runs,
                 problem_seq, now, ticks, response, fnArgs, fnResult>>

\* An orchestrator that goes on whatever the ingestion agent answers
Ingestion_NoCheck(p) ==
  /\ pc[p] = "ingestion"
  /\ LET output == IngestionOutput(local[p].text, local[p].location)
     IN /\ agent_logs' = LogComplete(agent_logs, local[p].log_id, output)
        /\ local' = [local EXCEPT ![p].ingestion = output]
  /\ pc' = [pc EXCEPT ![p] = "insert_complaint"]
  /\ UNCHANGED <<complaints, problems, complaint_problems, analysis_runs,
                 problem_seq, now, ticks, response, fnArgs, fnResult>>

\* A validator that answers a rejection before it completes its log entry
Ingestion_NoLogOnReject(p) ==
  /\ pc[p] = "ingestion"
  /\ LET output == IngestionOutput(local[p].text, local[p].location)
     IN IF output.is_valid
        THEN /\ agent_logs' = LogComplete(agent_logs, local[p].log_id, output)
             /\ local' = [local EXCEPT ![p].ingestion = output]
             /\ pc' = [pc EXCEPT ![p] = "insert_complaint"]
             /\ response' = response
        ELSE /\ agent_logs' = agent_logs
             /\ local' = [local EXCEPT ![p] = IdleLocal]
             /\ pc' = [pc EXCEPT ![p] = "idle"]
             /\ response' =
                  [status |-> 400, success |-> FALSE,
                   error |-> IF output.reason # "" THEN output.reason
                             ELSE "Complaint validation failed"]
  /\ UNCHANGED <<complaints, problems, complaint_problems, analysis_runs,
                 problem_seq, now, ticks, fnArgs, fnResult>>

\* The ingestion agent validates, completes its log entry and returns; the
\* orchestrator answers 400 on a rejection.
Ingestion(p) ==
  /\ pc[p] = "ingestion"
  /\ LET output == IngestionOutput(local[p].text, local[p].location)
     IN /\ agent_logs' = LogComplete(agent_logs, local[p].log_id, output)
        /\ IF output.is_valid
           THEN /\ local' = [local EXCEPT ![p].ingestion = output]
                /\ pc' = [pc EXCEPT ![p] = "insert_complaint"]
                /\ response' = response
           ELSE /\ local' = [local EXCEPT ![p] = IdleLocal]
                /\ pc' = [pc EXCEPT ![p] = "idle"]
                /\ response' =
                     [status |-> 400, success |-> FALSE,
                      error |-> IF output.reason # "" THEN output.reason
                                ELSE "Complaint validation failed"]
  /\ UNCHANGED <<complaints, problems, complaint_problems, analysis_runs,
                 problem_seq, now, ticks, fnArgs, fnResult>>

\* supabase.from('complaints').insert({text, cleaned_text, location, status: 'processing'})
InsertComplaint(p) ==
  /\ pc[p] = "insert_complaint"
  /\ complaints' = Append(complaints,
       [id |-> Len(complaints) + 1,
        text |-> local[p].text,
        cleaned_text |-> local[p].ingestion.cleaned_text,
        location |-> local[p].ingestion.location,
        status |-> "processing",
        embedding |-> NullEmbedding,
        created_at |-> now])
  /\ local' = [local EXCEPT ![p].complaint_id = Len(complaints) + 1]
  /\ pc' = [pc EXCEPT ![p] = "understanding_log"]
  /\ UNCHANGED <<problems, complaint_problems, agent_logs, analysis_runs,
                 problem_seq, now, ticks, response, fnArgs, fnResult>>

\* The understanding agent inserts its log entry.
UnderstandingLog(p) ==
  /\ pc[p] = "understanding_log"
  /\ agent_logs' = LogInsert("understanding",
       [cleaned_text |-> local[p].ingestion.cleaned_text,
        complaint_id |-> local[p].complaint_id])
  /\ local' = [local EXCEPT ![p].log_id = Len(agent_logs) + 1]
  /\ pc' = [pc EXCEPT ![p] = "understanding"]
  /\ UNCHANGED <<complaints, problems, complaint_problems, analysis_runs,
                 problem_seq, now, ticks, response, fnArgs, fnResult>>

\* The understanding agent persists the fingerprint, completes its log entry
\* and returns; the orchestrator answers with the complaint id.
Understanding(p) ==
  /\ pc[p] = "understanding"
  /\ LET cleaned_text == local[p].ingestion.cleaned_text
         embedding == generateEmbedding(cleaned_text)
         tokens == SelectSeq(split(cleaned_text), LAMBDA w : Len(w) > 2)
     IN /\ complaints' = [complaints EXCEPT ![local[p].complaint_id].embedding = embedding]
        /\ agent_logs' = LogComplete(agent_logs, local[p].log_id,
                                     [tokens |-> tokens, embedding_dimensions |-> Len(embedding)])
  /\ local' = [local EXCEPT ![p] = IdleLocal]
  /\ pc' = [pc EXCEPT ![p] = "idle"]
  /\ response' = [status |-> 200, success |-> TRUE,
                  complaint_id |-> local[p].complaint_id]
  /\ UNCHANGED <<problems, complaint_problems, analysis_runs,
                 problem_seq, now, ticks, fnArgs, fnResult>>

(***************************************************************************)
(* analyze_all: the orchestrator's first steps and the discovery agent     *)
(***************************************************************************)

\* supabase.from('analysis_runs').insert({id: runId, status: 'processing', started_at})
AnalyzeAll(p) ==
  /\ pc[p] = "idle"
  /\ Len(analysis_runs) < MaxRuns
  /\ analysis_runs' = Append(analysis_runs,
       [id |-> Len(analysis_runs) + 1, status |-> "processing",
        total_complaints |-> 0, problems_discovered |-> 0])
  /\ local' = [local EXCEPT ![p] = [IdleLocal EXCEPT !.action = "analyze_all",
                                       !.run_id = Len(analysis_runs) + 1]]
  /\ pc' = [pc EXCEPT ![p] = "count_processing"]
  /\ UNCHANGED <<complaints, problems, complaint_problems, agent_logs,
                 problem_seq, now, ticks, response, fnArgs, fnResult>>

\* A count without its status filter
CountProcessing_AnyStatus(p) ==
  /\ pc[p] = "count_processing"
  /\ local' = [local EXCEPT ![p].totalComplaints = Len(complaints)]
  /\ pc' = [pc EXCEPT ![p] = "discovery_read"]
  /\ UNCHANGED <<complaints, problems, complaint_problems, agent_logs,
                 analysis_runs, problem_seq, now, ticks, response, fnArgs,
                 fnResult>>

\* select('*', {count: 'exact', head: true}).eq('status', 'processing')
CountProcessing(p) ==
  /\ pc[p] = "count_processing"
  /\ local' = [local EXCEPT ![p].totalComplaints =
       Cardinality({i \in DOMAIN complaints : complaints[i].status = "processing"})]
  /\ pc' = [pc EXCEPT ![p] = "discovery_read"]
  /\ UNCHANGED <<complaints, problems, complaint_problems, agent_logs,
                 analysis_runs, problem_seq, now, ticks, response, fnArgs,
                 fnResult>>

\* The select without its status filter
DiscoveryInput_AnyStatus ==
  SelectSeq(complaints, LAMBDA c : c.embedding # NullEmbedding)

\* .from('complaints').select(...).not('embedding', 'is', null).eq('status', 'processing')
DiscoveryInput ==
  SelectSeq(complaints,
            LAMBDA c : c.embedding # NullEmbedding /\ c.status = "processing")

MemberIds(cluster) ==
  Materialize([i \in 1..Len(cluster.complaints) |-> cluster.complaints[i].id])

\* A clustering stage that resets the problems and the links before it looks
\* whether there is anything to cluster
DiscoveryRead_ResetsFirst(p) ==
  /\ pc[p] = "discovery_read"
  /\ LET log_id == Len(agent_logs) + 1
         logged == LogInsert("discovery", [action |-> "cluster_complaints"])
         input == DiscoveryInput
     IN IF Len(input) = 0
        THEN /\ agent_logs' = LogComplete(logged, log_id,
                                          [message |-> "No complaints to cluster"])
             /\ local' = [local EXCEPT ![p].log_id = log_id]
             /\ pc' = [pc EXCEPT ![p] = "priority_read"]
             /\ problems' = {}
             /\ complaint_problems' = {}
        ELSE \E seeds \in Seeds(Len(input), numClusters(Len(input))) :
               LET clusters == kMeansClustering(input, numClusters(Len(input)), seeds)
               IN /\ agent_logs' = logged
                  /\ local' = [local EXCEPT ![p].log_id = log_id,
                                            ![p].total = Len(input),
                                            ![p].clusters =
                                               Materialize([j \in 1..Len(clusters) |->
                                                  [id |-> clusters[j].id,
                                                   members |-> MemberIds(clusters[j])]])]
                  /\ pc' = [pc EXCEPT ![p] = "delete_problems"]
                  /\ UNCHANGED <<problems, complaint_problems>>
  /\ UNCHANGED <<complaints, analysis_runs, problem_seq, now, ticks, response,
                 fnArgs, fnResult>>

\* The discovery agent inserts its log entry and reads its input.  With no
\* input it completes its log entry and returns; otherwise it clusters.
DiscoveryRead(p) ==
  /\ pc[p] = "discovery_read"
  /\ LET log_id == Len(agent_logs) + 1
         logged == LogInsert("discovery", [action |-> "cluster_complaints"])
         input == DiscoveryInput
     IN IF Len(input) = 0
        THEN /\ agent_logs' = LogComplete(logged, log_id,
                                          [message |-> "No complaints to cluster"])
             /\ local' = [local EXCEPT ![p].log_id = log_id]
             /\ pc' = [pc EXCEPT ![p] = "priority_read"]
        ELSE \E seeds \in Seeds(Len(input), numClusters(Len(input))) :
               LET clusters == kMeansClustering(input, numClusters(Len(input)), seeds)
               IN /\ agent_logs' = logged
                  /\ local' = [local EXCEPT ![p].log_id = log_id,
                                            ![p].total = Len(input),
                                            ![p].clusters =
                                               Materialize([j \in 1..Len(clusters) |->
                                                  [id |-> clusters[j].id,
                                                   members |-> MemberIds(clusters[j])]])]
                  /\ pc' = [pc EXCEPT ![p] = "delete_problems"]
  /\ UNCHANGED <<complaints, problems, complaint_problems, analysis_runs,
                 problem_seq, now, ticks, response, fnArgs, fnResult>>

\* A reset that deletes nothing
DeleteProblems_None(p) ==
  /\ pc[p] = "delete_problems"
  /\ pc' = [pc EXCEPT ![p] = "delete_links"]
  /\ UNCHANGED <<complaints, problems, complaint_problems, agent_logs,
                 analysis_runs, problem_seq, now, ticks, local, response,
                 fnArgs, fnResult>>

\* A reset that waits until no other run is between its reset and the end of
\* its inserts
DeleteProblems_Locked(p) ==
  /\ pc[p] = "delete_problems"
  /\ \A q \in Procs \ {p} :
       pc[q] \notin {"delete_links", "insert_problem", "insert_link", "update_status"}
  /\ problems' = {}
  /\ complaint_problems' =
       {l \in complaint_problems : \A r \in problems : r.id # l.problem_id}
  /\ pc' = [pc EXCEPT ![p] = "delete_links"]
  /\ UNCHANGED <<complaints, agent_logs, analysis_runs, problem_seq, now,
                 ticks, local, response, fnArgs, fnResult>>

\* supabase.from('problems').delete().neq('id', '0000...'): every row; the
\* links go with their problems (problem_id ... ON DELETE CASCADE).
DeleteProblems(p) ==
  /\ pc[p] = "delete_problems"
  /\ problems' = {}
  /\ complaint_problems' =
       {l \in complaint_problems : \A r \in problems : r.id # l.problem_id}
  /\ pc' = [pc EXCEPT ![p] = "delete_links"]
  /\ UNCHANGED <<complaints, agent_logs, analysis_runs, problem_seq, now,
                 ticks, local, response, fnArgs, fnResult>>

\* A reset that also puts every complaint back in status processing
DeleteLinks_ResetStatus(p) ==
  /\ pc[p] = "delete_links"
  /\ complaint_problems' = {}
  /\ complaints' = [i \in DOMAIN complaints |->
                      [complaints[i] EXCEPT !.status = "processing"]]
  /\ local' = [local EXCEPT ![p].ci = 1]
  /\ pc' = [pc EXCEPT ![p] = "insert_problem"]
  /\ UNCHANGED <<problems, agent_logs, analysis_runs, problem_seq, now, ticks,
                 response, fnArgs, fnResult>>

\* A reset that also deletes the complaints already analyzed
DeleteLinks_AndAnalyzed(p) ==
  /\ pc[p] = "delete_links"
  /\ complaint_problems' = {}
  /\ complaints' = SelectSeq(complaints, LAMBDA c : c.status # "analyzed")
  /\ local' = [local EXCEPT ![p].ci = 1]
  /\ pc' = [pc EXCEPT ![p] = "insert_problem"]
  /\ UNCHANGED <<problems, agent_logs, analysis_runs, problem_seq,
                 now, ticks, response, fnArgs, fnResult>>

\* supabase.from('complaint_problems').delete().neq('complaint_id', '0000...')
DeleteLinks(p) ==
  /\ pc[p] = "delete_links"
  /\ complaint_problems' = {}
  /\ local' = [local EXCEPT ![p].ci = 1]
  /\ pc' = [pc EXCEPT ![p] = "insert_problem"]
  /\ UNCHANGED <<complaints, problems, agent_logs, analysis_runs, problem_seq,
                 now, ticks, response, fnArgs, fnResult>>

\* String.prototype.toUpperCase, one character.
ToUpperChar(c) ==
  IF \E i \in 1..Len(LowerCase) : CharAt(LowerCase, i) = c
  THEN CharAt(UpperCase, CHOOSE i \in 1..Len(LowerCase) : CharAt(LowerCase, i) = c)
  ELSE c

\* The words of the given complaints' cleaned texts, in order.
RECURSIVE AllWords(_)
AllWords(cs) ==
  IF Len(cs) = 0 THEN <<>> ELSE split(cs[1].cleaned_text) \o AllWords(Tail(cs))

\* The distinct elements of a sequence in the order of their first occurrence
\* (the key order of the wordFreq object).
RECURSIVE Distinct(_)
Distinct(ws) ==
  IF Len(ws) = 0 THEN <<>>
  ELSE LET front == Distinct(SubSeq(ws, 1, Len(ws) - 1))
       IN IF ws[Len(ws)] \in Range(front) THEN front ELSE Append(front, ws[Len(ws)])

Count(w, ws) == Cardinality({i \in DOMAIN ws : ws[i] = w})

\* Object.entries(wordFreq).sort((a, b) => b[1] - a[1]).slice(0, n): the n
\* most frequent keys, ties in key order (the sort is stable).
RECURSIVE TopByFrequency(_, _, _)
TopByFrequency(keys, ws, n) ==
  IF n = 0 \/ Len(keys) = 0 THEN <<>>
  ELSE LET best == CHOOSE i \in DOMAIN keys :
                     /\ \A j \in DOMAIN keys : Count(keys[j], ws) <= Count(keys[i], ws)
                     /\ \A j \in 1..(i - 1) : Count(keys[j], ws) < Count(keys[i], ws)
       IN <<keys[best]>> \o
          TopByFrequency(SubSeq(keys, 1, best - 1) \o SubSeq(keys, best + 1, Len(keys)),
                         ws, n - 1)

Capitalize(w) == ToUpperChar(CharAt(w, 1)) \o SubSeq(w, 2, Len(w))

RECURSIVE JoinWith(_, _)
JoinWith(ws, sep) ==
  IF Len(ws) = 0 THEN ""
  ELSE IF Len(ws) = 1 THEN ws[1]
       ELSE ws[1] \o sep \o JoinWith(Tail(ws), sep)

TitleWords == 3

generateClusterTitle(cs) ==
  LET ws == SelectSeq(AllWords(cs), LAMBDA w : Len(w) > 3)
      sortedWords == TopByFrequency(Distinct(ws), ws, TitleWords)
  IN IF Len(sortedWords) = 0 THEN "General Issues"
     ELSE JoinWith([i \in 1..Len(sortedWords) |-> Capitalize(sortedWords[i])], " & ")
            \o " Issues"

\* The confidence of every link, 0.8, in tenths
Confidence == 8

\* The rows of the complaints table with the given ids, in the given order
ComplaintRows(ids) == Materialize([i \in 1..Len(ids) |-> complaints[ids[i]]])

\* An insert that counts the complaints of the whole input
InsertProblem_CountsInput(p) ==
  /\ pc[p] = "insert_problem"
  /\ LET cluster == local[p].clusters[local[p].ci]
     IN problems' = problems \cup
          {[id |-> problem_seq + 1,
            title |-> generateClusterTitle(ComplaintRows(cluster.members)),
            description |-> "",
            cluster_id |-> cluster.id,
            complaint_count |-> local[p].total,
            priority_score |-> 0,
            trend |-> "stable",
            keywords |-> <<>>,
            created_by |-> local[p].run_id]}
  /\ problem_seq' = problem_seq + 1
  /\ local' = [local EXCEPT ![p].problem_id = problem_seq + 1, ![p].mi = 1]
  /\ pc' = [pc EXCEPT ![p] = "insert_link"]
  /\ UNCHANGED <<complaints, complaint_problems, agent_logs, analysis_runs,
                 now, ticks, response, fnArgs, fnResult>>

\* supabase.from('problems').insert({title, cluster_id, complaint_count,
\* priority_score: 0, trend: 'stable', keywords: []}).select().single()
\* created_by is no column: it records the analysis run that inserted the row.
InsertProblem(p) ==
  /\ pc[p] = "insert_problem"
  /\ LET cluster == local[p].clusters[local[p].ci]
     IN problems' = problems \cup
          {[id |-> problem_seq + 1,
            title |-> generateClusterTitle(ComplaintRows(cluster.members)),
            description |-> "",
            cluster_id |-> cluster.id,
            complaint_count |-> Len(cluster.members),
            priority_score |-> 0,
            trend |-> "stable",
            keywords |-> <<>>,
            created_by |-> local[p].run_id]}
  /\ problem_seq' = problem_seq + 1
  /\ local' = [local EXCEPT ![p].problem_id = problem_seq + 1, ![p].mi = 1]
  /\ pc' = [pc EXCEPT ![p] = "insert_link"]
  /\ UNCHANGED <<complaints, complaint_problems, agent_logs, analysis_runs,
                 now, ticks, response, fnArgs, fnResult>>

\* supabase.from('complaint_problems').insert({complaint_id, problem_id,
\* confidence: 0.8}); the row is refused, and the refusal ignored, when the
\* problem is gone (problem_id REFERENCES problems(id)).
InsertLink(p) ==
  /\ pc[p] = "insert_link"
  /\ LET cluster == local[p].clusters[local[p].ci]
     IN complaint_problems' =
          IF \E r \in problems : r.id = local[p].problem_id
          THEN complaint_problems \cup
                 {[complaint_id |-> cluster.members[local[p].mi],
                   problem_id |-> local[p].problem_id,
                   confidence |-> Confidence]}
          ELSE complaint_problems
  /\ pc' = [pc EXCEPT ![p] = "update_status"]
  /\ UNCHANGED <<complaints, problems, agent_logs, analysis_runs, problem_seq,
                 now, ticks, local, response, fnArgs, fnResult>>

\* An update of the status that is not narrowed to the complaint's id
UpdateStatus_EveryComplaint(p) ==
  /\ pc[p] = "update_status"
  /\ LET cluster == local[p].clusters[local[p].ci]
     IN /\ complaints' =
             Materialize([i \in DOMAIN complaints |->
                            [complaints[i] EXCEPT !.status = "analyzed"]])
        /\ IF local[p].mi < Len(cluster.members)
           THEN /\ local' = [local EXCEPT ![p].mi = @ + 1]
                /\ pc' = [pc EXCEPT ![p] = "insert_link"]
           ELSE /\ local' = [local EXCEPT ![p].created = @ + 1, ![p].ci = @ + 1]
                /\ pc' = [pc EXCEPT ![p] =
                            IF local[p].ci < Len(local[p].clusters)
                            THEN "insert_problem" ELSE "discovery_finish"]
  /\ UNCHANGED <<problems, complaint_problems, agent_logs, analysis_runs,
                 problem_seq, now, ticks, response, fnArgs, fnResult>>

\* supabase.from('complaints').update({status: 'analyzed'}).eq('id', complaint.id),
\* then the next member, the next cluster, or the end of the loops.
UpdateStatus(p) ==
  /\ pc[p] = "update_status"
  /\ LET cluster == local[p].clusters[local[p].ci]
     IN /\ complaints' =
             [complaints EXCEPT ![cluster.members[local[p].mi]].status = "analyzed"]
        /\ IF local[p].mi < Len(cluster.members)
           THEN /\ local' = [local EXCEPT ![p].mi = @ + 1]
                /\ pc' = [pc EXCEPT ![p] = "insert_link"]
           ELSE /\ local' = [local EXCEPT ![p].created = @ + 1, ![p].ci = @ + 1]
                /\ pc' = [pc EXCEPT ![p] =
                            IF local[p].ci < Len(local[p].clusters)
                            THEN "insert_problem" ELSE "discovery_finish"]
  /\ UNCHANGED <<problems, complaint_problems, agent_logs, analysis_runs,
                 problem_seq, now, ticks, response, fnArgs, fnResult>>

\* An orchestrator that calls the explainability agent after the discovery agent
DiscoveryFinish_ThenExplain(p) ==
  /\ pc[p] = "discovery_finish"
  /\ agent_logs' = LogComplete(agent_logs, local[p].log_id,
       [clusters_created |-> Len(local[p].clusters),
        problems_created |-> local[p].created,
        total_complaints |-> local[p].total])
  /\ pc' = [pc EXCEPT ![p] = "explain_read"]
  /\ UNCHANGED <<complaints, problems, complaint_problems, analysis_runs,
                 problem_seq, now, ticks, local, response, fnArgs, fnResult>>

\* The discovery agent completes its log entry and returns.
DiscoveryFinish(p) ==
  /\ pc[p] = "discovery_finish"
  /\ agent_logs' = LogComplete(agent_logs, local[p].log_id,
       [clusters_created |-> Len(local[p].clusters),
        problems_created |-> local[p].created,
        total_complaints |-> local[p].total])
  /\ pc' = [pc EXCEPT ![p] = "priority_read"]
  /\ UNCHANGED <<complaints, problems, complaint_problems, analysis_runs,
                 problem_seq, now, ticks, local, response, fnArgs, fnResult>>

(***************************************************************************)
(* The priority agent.  A score that is a quotient is kept as the fraction *)
(* num / den; the clock counts days.                                       *)
(***************************************************************************)

urgentKeywords ==
  {"urgent", "emergency", "critical", "immediate", "severe", "dangerous",
   "unsafe", "health", "hospital", "children", "death", "injury"}

importantKeywords ==
  {"important", "serious", "concern", "problem", "broken", "damage", "leak",
   "overflow", "stuck"}

UrgentWeight == 3

ImportantWeight == 1

SeverityCap == 10

\* The forEach body of calculateSeverityScore for one complaint
SeverityOf(c) ==
  LET text == toLowerCase(c.cleaned_text)
  IN UrgentWeight * Cardinality({k \in urgentKeywords : includes(text, k)})
       + ImportantWeight * Cardinality({k \in importantKeywords : includes(text, k)})

RECURSIVE SumSeq(_)
SumSeq(ns) == IF Len(ns) = 0 THEN 0 ELSE ns[1] + SumSeq(Tail(ns))

\* Math.min(severityScore / complaints.length, 10)
calculateSeverityScore(cs) ==
  LET severityScore == SumSeq([i \in DOMAIN cs |-> SeverityOf(cs[i])])
  IN IF severityScore >= SeverityCap * Len(cs)
     THEN [num |-> SeverityCap, den |-> 1]
     ELSE [num |-> severityScore, den |-> Len(cs)]

oneDay == 1

oneWeek == 7

\* Twice the recency weight of one complaint: 3, 1.5 or 0.5
RecencyOf2(c) ==
  LET age == now - c.created_at
  IN IF age < oneDay THEN 6 ELSE IF age < oneWeek THEN 3 ELSE 1

\* recencyScore / complaints.length
calculateRecencyScore(cs) ==
  [num |-> SumSeq([i \in DOMAIN cs |-> RecencyOf2(cs[i])]), den |-> 2 * Len(cs)]

\* Math.max(...Object.values(locationMap), 1): the largest number of
\* complaints sharing one non-empty location, at least 1
MaxDensity(cs) ==
  LET locations == {cs[i].location : i \in DOMAIN cs} \ {""}
      counts == {Cardinality({i \in DOMAIN cs : cs[i].location = l}) : l \in locations}
  IN CHOOSE m \in counts \cup {1} : \A x \in counts \cup {1} : x <= m

\* floor(10000 * Math.log10(x)) for the arguments the model uses
Log10e4(x) ==
  CASE x = 2 -> 3010 [] x = 3 -> 4771 [] x = 4 -> 6020 [] x = 5 -> 6989
    [] x = 6 -> 7781 [] x = 7 -> 8450 [] x = 8 -> 9030 [] x = 9 -> 9542
    [] x = 10 -> 10000 [] x = 11 -> 10413 [] x = 12 -> 10791
    [] x = 10000001 -> 70000

\* Math.log10(maxDensity + 1) * 3, in units of 1/10000
calculateLocationDensity(cs) == 3 * Log10e4(MaxDensity(cs) + 1)

\* The score cut to an integer with Math.floor
calculatePriorityScore_Floor(factors) ==
  LET sev == factors.severity_score
      rec == factors.recency_score
      q == 2 * sev.den * rec.den * 10000
      score == 4 * Min(factors.complaint_count, 10) * q
                 + 7 * sev.num * rec.den * 10000
                 + 3 * rec.num * sev.den * 10000
                 + factors.location_density * 2 * sev.den * rec.den
  IN IF score >= 100 * q THEN 100 ELSE score \div q

\* The score rounded without the cap at 100
calculatePriorityScore_NoCap(factors) ==
  LET sev == factors.severity_score
      rec == factors.recency_score
      q == 2 * sev.den * rec.den * 10000
      score == 4 * Min(factors.complaint_count, 10) * q
                 + 7 * sev.num * rec.den * 10000
                 + 3 * rec.num * sev.den * 10000
                 + factors.location_density * 2 * sev.den * rec.den
  IN (2 * score + q) \div (2 * q)

\* Math.round(Math.min(score, 100)) for
\* score = min(count / 10, 1) * 100 * 0.4 + severity * 3.5 + recency * 1.5
\*         + density * 1, over the common denominator q.
calculatePriorityScore(factors) ==
  LET sev == factors.severity_score
      rec == factors.recency_score
      q == 2 * sev.den * rec.den * 10000
      score == 4 * Min(factors.complaint_count, 10) * q
                 + 7 * sev.num * rec.den * 10000
                 + 3 * rec.num * sev.den * 10000
                 + factors.location_density * 2 * sev.den * rec.den
  IN IF score >= 100 * q THEN 100 ELSE (2 * score + q) \div (2 * q)

\* complaints.sort((a, b) => time(a) - time(b)): a stable sort by created_at
RECURSIVE SortByTime(_)
SortByTime(cs) ==
  IF Len(cs) = 0 THEN <<>>
  ELSE LET first == CHOOSE i \in DOMAIN cs :
                      /\ \A j \in DOMAIN cs : cs[i].created_at <= cs[j].created_at
                      /\ \A j \in 1..(i - 1) : cs[j].created_at > cs[i].created_at
       IN <<cs[first]>> \o
          SortByTime(SubSeq(cs, 1, first - 1) \o SubSeq(cs, first + 1, Len(cs)))

\* A trend that takes a problem with one complaint for a new, rising one
determineTrend_NewIsRising(cs) ==
  IF Len(cs) < 2 THEN "rising"
  ELSE LET sortedComplaints == SortByTime(cs)
           halfPoint == Len(cs) \div 2
           firstHalf == SubSeq(sortedComplaints, 1, halfPoint)
           secondHalf == SubSeq(sortedComplaints, halfPoint + 1, Len(cs))
           sumFirst == SumSeq([i \in DOMAIN firstHalf |-> firstHalf[i].created_at])
           sumSecond == SumSeq([i \in DOMAIN secondHalf |-> secondHalf[i].created_at])
           nf == Len(firstHalf)
           ns == Len(secondHalf)
       IN IF /\ 10 * ns > 13 * nf
             /\ 20 * (sumSecond * nf - sumFirst * ns)
                  < 7 * (now - sortedComplaints[1].created_at) * nf * ns
          THEN "rising"
          ELSE IF 10 * ns < 7 * nf THEN "falling" ELSE "stable"

\* A trend of the complaints in the order the select yields them
determineTrend_Unsorted(cs) ==
  IF Len(cs) < 2 THEN "stable"
  ELSE LET sortedComplaints == cs
           halfPoint == Len(cs) \div 2
           firstHalf == SubSeq(sortedComplaints, 1, halfPoint)
           secondHalf == SubSeq(sortedComplaints, halfPoint + 1, Len(cs))
           sumFirst == SumSeq([i \in DOMAIN firstHalf |-> firstHalf[i].created_at])
           sumSecond == SumSeq([i \in DOMAIN secondHalf |-> secondHalf[i].created_at])
           nf == Len(firstHalf)
           ns == Len(secondHalf)
       IN IF /\ 10 * ns > 13 * nf
             /\ 20 * (sumSecond * nf - sumFirst * ns)
                  < 7 * (now - sortedComplaints[1].created_at) * nf * ns
          THEN "rising"
          ELSE IF 10 * ns < 7 * nf THEN "falling" ELSE "stable"

\* A first half of ceil(n / 2) complaints
determineTrend_CeilHalf(cs) ==
  IF Len(cs) < 2 THEN "stable"
  ELSE LET sortedComplaints == SortByTime(cs)
           halfPoint == (Len(cs) + 1) \div 2
           firstHalf == SubSeq(sortedComplaints, 1, halfPoint)
           secondHalf == SubSeq(sortedComplaints, halfPoint + 1, Len(cs))
           sumFirst == SumSeq([i \in DOMAIN firstHalf |-> firstHalf[i].created_at])
           sumSecond == SumSeq([i \in DOMAIN secondHalf |-> secondHalf[i].created_at])
           nf == Len(firstHalf)
           ns == Len(secondHalf)
       IN IF /\ 10 * ns > 13 * nf
             /\ 20 * (sumSecond * nf - sumFirst * ns)
                  < 7 * (now - sortedComplaints[1].created_at) * nf * ns
          THEN "rising"
          ELSE IF 10 * ns < 7 * nf THEN "falling" ELSE "stable"

\* growthRate > 1.3 is 10 |second| > 13 |first|; timeDiff < expectedDiff * 0.7
\* is avg(second) - avg(first) < 0.7 * (now - earliest) / 2, multiplied through
\* by 20 |first| |second|; growthRate < 0.7 is 10 |second| < 7 |first|.
determineTrend(cs) ==
  IF Len(cs) < 2 THEN "stable"
  ELSE LET sortedComplaints == SortByTime(cs)
           halfPoint == Len(cs) \div 2
           firstHalf == SubSeq(sortedComplaints, 1, halfPoint)
           secondHalf == SubSeq(sortedComplaints, halfPoint + 1, Len(cs))
           sumFirst == SumSeq([i \in DOMAIN firstHalf |-> firstHalf[i].created_at])
           sumSecond == SumSeq([i \in DOMAIN secondHalf |-> secondHalf[i].created_at])
           nf == Len(firstHalf)
           ns == Len(secondHalf)
       IN IF /\ 10 * ns > 13 * nf
             /\ 20 * (sumSecond * nf - sumFirst * ns)
                  < 7 * (now - sortedComplaints[1].created_at) * nf * ns
          THEN "rising"
          ELSE IF 10 * ns < 7 * nf THEN "falling" ELSE "stable"

\* The rows of a set of problems as a list, in the order of their ids
RECURSIVE ById(_)
ById(rows) ==
  IF rows = {} THEN <<>>
  ELSE LET r == CHOOSE x \in rows : \A y \in rows : x.id <= y.id
       IN <<r>> \o ById(rows \ {r})

\* The complaints linked to a problem: the select on complaint_problems and
\* the select on complaints with .in('id', complaintIds)
LinkedComplaints(problem_id) ==
  SelectSeq(complaints,
            LAMBDA c : \E l \in complaint_problems :
                          l.problem_id = problem_id /\ l.complaint_id = c.id)

\* An update that writes the whole row from its defaults
UpdateProblem_WholeRow(id, priority_score, trend, complaint_count) ==
  {IF r.id = id
   THEN [r EXCEPT !.priority_score = priority_score, !.trend = trend,
                  !.complaint_count = complaint_count,
                  !.description = "", !.keywords = <<>>]
   ELSE r : r \in problems}

\* ....update(fields).eq('id', id) on the problems table
UpdateProblem(id, priority_score, trend, complaint_count) ==
  {IF r.id = id
   THEN [r EXCEPT !.priority_score = priority_score, !.trend = trend,
                  !.complaint_count = complaint_count]
   ELSE r : r \in problems}

\* The priority agent inserts its log entry and reads the problems; with
\* none it completes its log entry and returns.
PriorityRead(p) ==
  /\ pc[p] = "priority_read"
  /\ LET log_id == Len(agent_logs) + 1
         logged == LogInsert("priority", [action |-> "calculate_priorities"])
     IN IF problems = {}
        THEN /\ agent_logs' = LogComplete(logged, log_id,
                                          [message |-> "No problems to prioritize"])
             /\ local' = [local EXCEPT ![p].log_id = log_id]
             /\ pc' = [pc EXCEPT ![p] = "explain_read"]
        ELSE /\ agent_logs' = logged
             /\ local' = [local EXCEPT ![p].log_id = log_id,
                                       ![p].rows = ById(problems),
                                       ![p].ci = 1,
                                       ![p].updated = 0,
                                       ![p].highest = 0]
             /\ pc' = [pc EXCEPT ![p] = "priority_problem"]
  /\ UNCHANGED <<complaints, problems, complaint_problems, analysis_runs,
                 problem_seq, now, ticks, response, fnArgs, fnResult>>

\* One turn of the loop over the problems: the linked complaints are read,
\* scored, and the problem row updated; a problem without links is skipped.
PriorityProblem(p) ==
  /\ pc[p] = "priority_problem"
  /\ LET problem == local[p].rows[local[p].ci]
         cs == LinkedComplaints(problem.id)
         factors == [complaint_count |-> Len(cs),
                     severity_score |-> calculateSeverityScore(cs),
                     recency_score |-> calculateRecencyScore(cs),
                     location_density |-> calculateLocationDensity(cs)]
         priorityScore == calculatePriorityScore(factors)
     IN IF Len(cs) = 0
        THEN /\ problems' = problems
             /\ local' = [local EXCEPT ![p].ci = @ + 1]
        ELSE /\ problems' = UpdateProblem(problem.id, priorityScore,
                                          determineTrend(cs), Len(cs))
             /\ local' = [local EXCEPT ![p].ci = @ + 1,
                                       ![p].updated = @ + 1,
                                       ![p].highest = Max(@, priorityScore)]
  /\ pc' = [pc EXCEPT ![p] = IF local[p].ci < Len(local[p].rows)
                             THEN "priority_problem" ELSE "priority_finish"]
  /\ UNCHANGED <<complaints, complaint_problems, agent_logs, analysis_runs,
                 problem_seq, now, ticks, response, fnArgs, fnResult>>

\* The priority agent completes its log entry and returns.
PriorityFinish(p) ==
  /\ pc[p] = "priority_finish"
  /\ agent_logs' = LogComplete(agent_logs, local[p].log_id,
       [problems_updated |-> local[p].updated,
        highest_priority |-> local[p].highest])
  /\ pc' = [pc EXCEPT ![p] = "explain_read"]
  /\ UNCHANGED <<complaints, problems, complaint_problems, analysis_runs,
                 problem_seq, now, ticks, local, response, fnArgs, fnResult>>

(***************************************************************************)
(* The explainability agent                                                *)
(***************************************************************************)

importantWords ==
  {"water", "road", "garbage", "electric", "drain", "sewage", "urgent",
   "emergency", "broken", "damage", "leak", "overflow", "shortage", "supply",
   "power", "light", "street", "pothole", "safety", "health", "dangerous",
   "critical", "immediate", "hospital", "children", "school", "waste",
   "smell", "noise", "pollution"}

MaxKeywords == 8

extractKeywords(cs) ==
  LET ws == SelectSeq(AllWords(cs), LAMBDA w : Len(w) > 3 /\ w \in importantWords)
  IN TopByFrequency(Distinct(ws), ws, MaxKeywords)

CriticalScore == 80

HighScore == 60

MediumScore == 40

\* Tiers that begin above their thresholds
generatePriorityExplanation_Above(priorityScore, trend) ==
  (IF priorityScore > CriticalScore
   THEN "CRITICAL PRIORITY: Requires immediate attention"
   ELSE IF priorityScore > HighScore
        THEN "HIGH PRIORITY: Should be addressed soon"
        ELSE IF priorityScore > MediumScore
             THEN "MEDIUM PRIORITY: Needs attention within reasonable timeframe"
             ELSE "LOW PRIORITY: Can be scheduled for later")
  \o (IF trend = "rising"
      THEN ". Problem is escalating and may worsen if not addressed."
      ELSE IF trend = "falling"
           THEN ". Problem appears to be improving or resolving."
           ELSE ". Problem is stable at current levels.")

generatePriorityExplanation(priorityScore, trend) ==
  (IF priorityScore >= CriticalScore
   THEN "CRITICAL PRIORITY: Requires immediate attention"
   ELSE IF priorityScore >= HighScore
        THEN "HIGH PRIORITY: Should be addressed soon"
        ELSE IF priorityScore >= MediumScore
             THEN "MEDIUM PRIORITY: Needs attention within reasonable timeframe"
             ELSE "LOW PRIORITY: Can be scheduled for later")
  \o (IF trend = "rising"
      THEN ". Problem is escalating and may worsen if not addressed."
      ELSE IF trend = "falling"
           THEN ". Problem appears to be improving or resolving."
           ELSE ". Problem is stable at current levels.")

\* The explainability agent inserts its log entry and reads the problems;
\* with none it completes its log entry and returns.
ExplainRead(p) ==
  /\ pc[p] = "explain_read"
  /\ LET log_id == Len(agent_logs) + 1
         logged == LogInsert("explainability", [action |-> "generate_explanations"])
     IN IF problems = {}
        THEN /\ agent_logs' = LogComplete(logged, log_id,
                                          [message |-> "No problems to explain"])
             /\ local' = [local EXCEPT ![p].log_id = log_id]
             /\ pc' = [pc EXCEPT ![p] = "select_problems"]
        ELSE /\ agent_logs' = logged
             /\ local' = [local EXCEPT ![p].log_id = log_id,
                                       ![p].rows = ById(problems),
                                       ![p].ci = 1,
                                       ![p].updated = 0]
             /\ pc' = [pc EXCEPT ![p] = "explain_problem"]
  /\ UNCHANGED <<complaints, problems, complaint_problems, analysis_runs,
                 problem_seq, now, ticks, response, fnArgs, fnResult>>

\* One turn of the loop over the problems: keywords and description are
\* written from the linked complaints and from the problem row as it was read.
ExplainProblem(p) ==
  /\ pc[p] = "explain_problem"
  /\ LET problem == local[p].rows[local[p].ci]
         cs == LinkedComplaints(problem.id)
     IN IF Len(cs) = 0
        THEN /\ problems' = problems
             /\ local' = [local EXCEPT ![p].ci = @ + 1]
        ELSE /\ problems' =
                  {IF r.id = problem.id
                   THEN [r EXCEPT !.keywords = extractKeywords(cs),
                                  !.description =
                                     generatePriorityExplanation(problem.priority_score,
                                                                 problem.trend)]
                   ELSE r : r \in problems}
             /\ local' = [local EXCEPT ![p].ci = @ + 1, ![p].updated = @ + 1]
  /\ pc' = [pc EXCEPT ![p] = IF local[p].ci < Len(local[p].rows)
                             THEN "explain_problem" ELSE "explain_finish"]
  /\ UNCHANGED <<complaints, complaint_problems, agent_logs, analysis_runs,
                 problem_seq, now, ticks, response, fnArgs, fnResult>>

\* The explainability agent completes its log entry and returns.
ExplainFinish(p) ==
  /\ pc[p] = "explain_finish"
  /\ agent_logs' = LogComplete(agent_logs, local[p].log_id,
                               [explanations_generated |-> local[p].updated])
  /\ pc' = [pc EXCEPT ![p] = "select_problems"]
  /\ UNCHANGED <<complaints, problems, complaint_problems, analysis_runs,
                 problem_seq, now, ticks, local, response, fnArgs, fnResult>>

(***************************************************************************)
(* analyze_all: the orchestrator's last steps                              *)
(***************************************************************************)

\* The select ordered with {ascending: true}
RECURSIVE ByPriority_Ascending(_)
ByPriority_Ascending(rows) ==
  IF rows = {} THEN <<>>
  ELSE LET r == CHOOSE x \in rows : \A y \in rows :
                  \/ x.priority_score < y.priority_score
                  \/ x.priority_score = y.priority_score /\ x.id <= y.id
       IN <<r>> \o ByPriority_Ascending(rows \ {r})

\* .from('problems').select('*').order('priority_score', {ascending: false});
\* rows of equal score are listed in the order of their ids.
RECURSIVE ByPriority(_)
ByPriority(rows) ==
  IF rows = {} THEN <<>>
  ELSE LET r == CHOOSE x \in rows : \A y \in rows :
                  \/ x.priority_score > y.priority_score
                  \/ x.priority_score = y.priority_score /\ x.id <= y.id
       IN <<r>> \o ByPriority(rows \ {r})

SelectProblems(p) ==
  /\ pc[p] = "select_problems"
  /\ local' = [local EXCEPT ![p].rows = ByPriority(problems)]
  /\ pc' = [pc EXCEPT ![p] = "complete_run"]
  /\ UNCHANGED <<complaints, problems, complaint_problems, agent_logs,
                 analysis_runs, problem_seq, now, ticks, response, fnArgs,
                 fnResult>>

\* .from('analysis_runs').update({status: 'completed', total_complaints,
\* problems_discovered, completed_at}).eq('id', runId), then the response.
CompleteRun(p) ==
  /\ pc[p] = "complete_run"
  /\ analysis_runs' = [analysis_runs EXCEPT
       ![local[p].run_id].status = "completed",
       ![local[p].run_id].total_complaints = local[p].totalComplaints,
       ![local[p].run_id].problems_discovered = Len(local[p].rows)]
  /\ local' = [local EXCEPT ![p] = IdleLocal]
  /\ pc' = [pc EXCEPT ![p] = "idle"]
  /\ response' =
       [status |-> 200, success |-> TRUE, run_id |-> local[p].run_id,
        total_complaints |-> local[p].totalComplaints,
        problems_discovered |-> Len(local[p].rows),
        problems |-> local[p].rows]
  /\ UNCHANGED <<complaints, problems, complaint_problems, agent_logs,
                 problem_seq, now, ticks, fnArgs, fnResult>>

\* Time passes between two requests.
Tick(d) ==
  /\ AllIdle
  /\ ticks < MaxTicks
  /\ now' = now + d
  /\ ticks' = ticks + 1
  /\ UNCHANGED <<complaints, problems, complaint_problems, agent_logs,
                 analysis_runs, problem_seq, pc, local, response, fnArgs,
                 fnResult>>

\* A step of the request in slot p that is under way
Step(p) ==
  \/ Ingestion(p)
  \/ InsertComplaint(p)
  \/ UnderstandingLog(p)
  \/ Understanding(p)
  \/ CountProcessing(p)
  \/ DiscoveryRead(p)
  \/ DeleteProblems(p)
  \/ DeleteLinks(p)
  \/ InsertProblem(p)
  \/ InsertLink(p)
  \/ UpdateStatus(p)
  \/ DiscoveryFinish(p)
  \/ PriorityRead(p)
  \/ PriorityProblem(p)
  \/ PriorityFinish(p)
  \/ ExplainRead(p)
  \/ ExplainProblem(p)
  \/ ExplainFinish(p)
  \/ SelectProblems(p)
  \/ CompleteRun(p)

\* A request arrives in slot p
Arrive(p) ==
  \/ \E inp \in SubmitInputs : SubmitComplaint(p, inp)
  \/ AnalyzeAll(p)

\* Requests run one at a time: a request arrives only when none is in flight.
Next ==
  \/ \E p \in Procs : AllIdle /\ Arrive(p)
  \/ \E p \in Procs : Step(p)
  \/ \E d \in TickSteps : Tick(d)

Spec == Init /\ [][Next]_vars

\* Analysis runs overlap: a run is started in any idle slot, a complaint is
\* submitted when no request is in flight, and the clock stands still.
NextOverlap ==
  \/ \E p \in Procs, inp \in SubmitInputs :
       AllIdle /\ NumSubmits < MaxOverlapSubmits /\ SubmitComplaint(p, inp)
  \/ \E p \in Procs : AnalyzeAll(p)
  \/ \E p \in Procs : Step(p)

SpecOverlap == Init /\ [][NextOverlap]_vars

(***************************************************************************)
(* The read queries of the orchestrator, and every request one at a time   *)
(***************************************************************************)

\* get_problems: the problems ordered by priority_score, highest first.
GetProblems(p) ==
  /\ pc[p] = "idle"
  /\ response' = [status |-> 200, success |-> TRUE,
                  problems |-> ByPriority(problems)]
  /\ UNCHANGED <<complaints, problems, complaint_problems, agent_logs,
                 analysis_runs, problem_seq, now, ticks, pc, local, fnArgs,
                 fnResult>>

LogLimit == 50

\* .from('agent_logs').select('*').order('created_at', {ascending: false}).limit(50)
RecentLogs ==
  LET n == Min(Len(agent_logs), LogLimit)
  IN Materialize([i \in 1..n |-> agent_logs[Len(agent_logs) + 1 - i]])

\* get_agent_logs: the most recent log entries, newest first.
GetAgentLogs(p) ==
  /\ pc[p] = "idle"
  /\ response' = [status |-> 200, success |-> TRUE, logs |-> RecentLogs]
  /\ UNCHANGED <<complaints, problems, complaint_problems, agent_logs,
                 analysis_runs, problem_seq, now, ticks, pc, local, fnArgs,
                 fnResult>>

\* get_problem_details: the problem and the complaints linked to it, or 404.
GetProblemDetails(p, problem_id) ==
  /\ pc[p] = "idle"
  /\ LET found == {r \in problems : r.id = problem_id}
     IN response' =
          IF found = {}
          THEN [status |-> 404, success |-> FALSE, error |-> "Problem not found"]
          ELSE [status |-> 200, success |-> TRUE,
                problem |-> CHOOSE r \in found : TRUE,
                complaints |-> LinkedComplaints(problem_id)]
  /\ UNCHANGED <<complaints, problems, complaint_problems, agent_logs,
                 analysis_runs, problem_seq, now, ticks, pc, local, fnArgs,
                 fnResult>>

\* The payloads of submit_complaint that meet every outcome of the validator:
\* those of SubmitInputs, one of stop words only and one that begins with a
\* repeated character.
RequestInputs ==
  SubmitInputs \cup
    {[text |-> "It is on the road", location |-> ""],
     [text |-> "aaaaaaaaa broken pipe everywhere", location |-> ""]}

\* A read query arrives in slot p and is answered
Query(p) ==
  \/ GetProblems(p)
  \/ GetAgentLogs(p)
  \/ \E problem_id \in 1..(problem_seq + 1) : GetProblemDetails(p, problem_id)

\* Every request of the orchestrator, one at a time.
NextRequests ==
  \/ \E p \in Procs, inp \in RequestInputs : AllIdle /\ SubmitComplaint(p, inp)
  \/ \E p \in Procs : AllIdle /\ AnalyzeAll(p)
  \/ \E p \in Procs : AllIdle /\ Query(p)
  \/ \E p \in Procs : Step(p)
  \/ \E d \in TickSteps : Tick(d)

SpecRequests == Init /\ [][NextRequests]_vars

(***************************************************************************)
(* Failures.  A storage operation answers {data, error} and never throws;  *)
(* the code throws on the error of five operations and does not look at    *)
(* the error of the others.  An agent that throws answers 500, callAgent   *)
(* throws on that answer, and the orchestrator's catch answers 500.        *)
(***************************************************************************)

\* catch (error) of the orchestrator: {success: false, error: error.message}
Failure(message) == [status |-> 500, success |-> FALSE, error |-> message]

\* The insert of the complaint answers an error: if (insertError) throw insertError
InsertComplaintFails(p) ==
  /\ pc[p] = "insert_complaint"
  /\ local' = [local EXCEPT ![p] = IdleLocal]
  /\ pc' = [pc EXCEPT ![p] = "idle"]
  /\ response' = Failure("insert failed")
  /\ UNCHANGED <<complaints, problems, complaint_problems, agent_logs,
                 analysis_runs, problem_seq, now, ticks, fnArgs, fnResult>>

\* The update of the embedding answers an error, which the understanding
\* agent does not look at: it completes its log entry and returns 200, and
\* the orchestrator answers with the complaint id.
UnderstandingUpdateFails(p) ==
  /\ pc[p] = "understanding"
  /\ LET cleaned_text == local[p].ingestion.cleaned_text
         embedding == generateEmbedding(cleaned_text)
         tokens == SelectSeq(split(cleaned_text), LAMBDA w : Len(w) > 2)
     IN agent_logs' = LogComplete(agent_logs, local[p].log_id,
                                  [tokens |-> tokens, embedding_dimensions |-> Len(embedding)])
  /\ local' = [local EXCEPT ![p] = IdleLocal]
  /\ pc' = [pc EXCEPT ![p] = "idle"]
  /\ response' = [status |-> 200, success |-> TRUE,
                  complaint_id |-> local[p].complaint_id]
  /\ UNCHANGED <<complaints, problems, complaint_problems, analysis_runs,
                 problem_seq, now, ticks, fnArgs, fnResult>>

\* An agent whose catch marks its log entry failed
StageReadFails_MarksFailed(p, at, agent_name, input_data) ==
  /\ pc[p] = at
  /\ agent_logs' = [LogInsert(agent_name, input_data)
                      EXCEPT ![Len(agent_logs) + 1].status = "failed"]
  /\ local' = [local EXCEPT ![p] = IdleLocal]
  /\ pc' = [pc EXCEPT ![p] = "idle"]
  /\ response' = Failure(agent_name \o "-agent failed")
  /\ UNCHANGED <<complaints, problems, complaint_problems, analysis_runs,
                 problem_seq, now, ticks, fnArgs, fnResult>>

\* A stage of analyze_all inserts its log entry and throws on the error of
\* its first select; the log entry stays running and the run row processing.
StageReadFails(p, at, agent_name, input_data) ==
  /\ pc[p] = at
  /\ agent_logs' = LogInsert(agent_name, input_data)
  /\ local' = [local EXCEPT ![p] = IdleLocal]
  /\ pc' = [pc EXCEPT ![p] = "idle"]
  /\ response' = Failure(agent_name \o "-agent failed")
  /\ UNCHANGED <<complaints, problems, complaint_problems, analysis_runs,
                 problem_seq, now, ticks, fnArgs, fnResult>>

\* if (error) throw error, after the select of the complaints to cluster
DiscoveryReadFails(p) ==
  StageReadFails(p, "discovery_read", "discovery", [action |-> "cluster_complaints"])

\* An orchestrator that goes on to the next stage when the priority agent failed
PriorityReadFails_GoesOn(p) ==
  /\ pc[p] = "priority_read"
  /\ agent_logs' = LogInsert("priority", [action |-> "calculate_priorities"])
  /\ pc' = [pc EXCEPT ![p] = "explain_read"]
  /\ UNCHANGED <<complaints, problems, complaint_problems, analysis_runs,
                 problem_seq, now, ticks, local, response, fnArgs, fnResult>>

\* if (problemsError) throw problemsError, in the priority agent
PriorityReadFails(p) ==
  StageReadFails(p, "priority_read", "priority", [action |-> "calculate_priorities"])

\* if (problemsError) throw problemsError, in the explainability agent
ExplainReadFails(p) ==
  StageReadFails(p, "explain_read", "explainability", [action |-> "generate_explanations"])

\* The insert of the problem answers an error: console.error and continue
\* with the next cluster; the complaints of the cluster are left as they are.
InsertProblemFails(p) ==
  /\ pc[p] = "insert_problem"
  /\ local' = [local EXCEPT ![p].ci = @ + 1]
  /\ pc' = [pc EXCEPT ![p] = IF local[p].ci < Len(local[p].clusters)
                             THEN "insert_problem" ELSE "discovery_finish"]
  /\ UNCHANGED <<complaints, problems, complaint_problems, agent_logs,
                 analysis_runs, problem_seq, now, ticks, response, fnArgs,
                 fnResult>>

\* The insert of the link answers an error, which the discovery agent does
\* not look at.
InsertLinkFails(p) ==
  /\ pc[p] = "insert_link"
  /\ pc' = [pc EXCEPT ![p] = "update_status"]
  /\ UNCHANGED <<complaints, problems, complaint_problems, agent_logs,
                 analysis_runs, problem_seq, now, ticks, local, response,
                 fnArgs, fnResult>>

\* The update of the status answers an error, which the discovery agent does
\* not look at.
UpdateStatusFails(p) ==
  /\ pc[p] = "update_status"
  /\ LET cluster == local[p].clusters[local[p].ci]
     IN IF local[p].mi < Len(cluster.members)
        THEN /\ local' = [local EXCEPT ![p].mi = @ + 1]
             /\ pc' = [pc EXCEPT ![p] = "insert_link"]
        ELSE /\ local' = [local EXCEPT ![p].created = @ + 1, ![p].ci = @ + 1]
             /\ pc' = [pc EXCEPT ![p] =
                         IF local[p].ci < Len(local[p].clusters)
                         THEN "insert_problem" ELSE "discovery_finish"]
  /\ UNCHANGED <<complaints, problems, complaint_problems, agent_logs,
                 analysis_runs, problem_seq, now, ticks, response, fnArgs,
                 fnResult>>

\* A step of the request in slot p at which a storage operation fails
Fail(p) ==
  \/ InsertComplaintFails(p)
  \/ UnderstandingUpdateFails(p)
  \/ DiscoveryReadFails(p)
  \/ InsertProblemFails(p)
  \/ InsertLinkFails(p)
  \/ UpdateStatusFails(p)
  \/ PriorityReadFails(p)
  \/ ExplainReadFails(p)

\* Requests run one at a time and a storage operation may fail.
NextFail ==
  \/ \E p \in Procs : AllIdle /\ Arrive(p)
  \/ \E p \in Procs : Step(p)
  \/ \E p \in Procs : Fail(p)

SpecFail == Init /\ [][NextFail]_vars

(***************************************************************************)
(* A submission overlaps an analysis run                                   *)
(***************************************************************************)

\* The slot of the analysis runs and the slot of the submissions
RunSlot == "r1"

SubmitSlot == "r2"

\* A complaint is submitted while an analysis run is under way, or a run is
\* started while a submission is under way; two requests of the same action
\* do not overlap, and the clock stands still.
NextPickup ==
  \/ \E inp \in SubmitInputs : SubmitComplaint(SubmitSlot, inp)
  \/ AnalyzeAll(RunSlot)
  \/ \E p \in Procs : Step(p)

SpecPickup == Init /\ [][NextPickup]_vars

(***************************************************************************)
(* The explainability agent in the pipeline, and its narrative on its own  *)
(***************************************************************************)

Trends == {"rising", "falling", "stable"}

MaxScore == 100

\* The arguments of generatePriorityExplanation: a score, which
\* calculatePriorityScore rounds to an integer of 0..100, and a trend
ExplainInputs == [priorityScore : 0..MaxScore, trend : Trends]

\* generatePriorityExplanation is applied to an argument, before any request;
\* fnResult holds the argument with the answer.
Narrate ==
  /\ fnResult = <<>>
  /\ AllIdle
  /\ agent_logs = <<>>
  /\ analysis_runs = <<>>
  /\ ticks = 0
  /\ \E args \in ExplainInputs :
       fnResult' = <<[priorityScore |-> args.priorityScore, trend |-> args.trend,
                      explanation |-> generatePriorityExplanation(args.priorityScore,
                                                                  args.trend)]>>
  /\ UNCHANGED <<complaints, problems, complaint_problems, agent_logs,
                 analysis_runs, problem_seq, now, ticks, pc, local, response,
                 fnArgs>>

\* Either the requests run one at a time, or the narrative is computed.
NextExplain ==
  \/ fnResult = <<>> /\ Next
  \/ Narrate

SpecExplain == Init /\ [][NextExplain]_vars

(***************************************************************************)
(* The priority agent's computation for one problem on its own: the        *)
(* complaints linked to the problem are scored, the trend determined and   *)
(* the narrative of the explainability agent chosen.                       *)
(***************************************************************************)

\* The most complaints linked to a problem, Scenario E apart
MaxLinked == 5

\* Date.now(), in days, when the problem is scored
ScoreTime == 30

\* The complaints linked to a problem, in the order the select yields them:
\* one complaint of any age and text, or up to MaxLinked complaints of any
\* ages in any order.
LinkedInputs ==
  {<<[id |-> 1, cleaned_text |-> text, location |-> "", created_at |-> t]>> :
     text \in {"garbage not collected", "urgent danger children hospital",
               "water pipe leak"},
     t \in {0, 1, 20, 24, 29, 30}}
  \cup UNION {{Materialize([i \in 1..n |->
                  [id |-> i, cleaned_text |-> "garbage not collected",
                   location |-> "", created_at |-> f[i]]]) :
                 f \in [1..n -> {0, 1, 20, 30}]} : n \in 2..MaxLinked}

\* Scenario E: 10 complaints without a severity keyword, all older than 7
\* days, all in one location; the first k were made on one day and the
\* others on a later day.
ScenarioE ==
  {Materialize([i \in 1..10 |->
      [id |-> i, cleaned_text |-> text, location |-> location,
       created_at |-> IF i <= k THEN 0 ELSE 20]]) :
     k \in 0..10, text \in {"garbage not collected", "street light not working"},
     location \in {"Ward 1", "Main Street"}}

InitScorer ==
  /\ complaints = <<>>
  /\ problems = {}
  /\ complaint_problems = {}
  /\ agent_logs = <<>>
  /\ analysis_runs = <<>>
  /\ problem_seq = 0
  /\ now = ScoreTime
  /\ ticks = 0
  /\ pc = [p \in Procs |-> "idle"]
  /\ local = [p \in Procs |-> IdleLocal]
  /\ response = NoResponse
  /\ fnArgs \in LinkedInputs \cup ScenarioE
  /\ fnResult = <<>>

\* The body of the priority agent's loop for the complaints of one problem,
\* then generatePriorityExplanation for the score and trend it wrote.
Assess ==
  /\ Len(fnResult) = 0
  /\ LET factors == [complaint_count |-> Len(fnArgs),
                     severity_score |-> calculateSeverityScore(fnArgs),
                     recency_score |-> calculateRecencyScore(fnArgs),
                     location_density |-> calculateLocationDensity(fnArgs)]
         priorityScore == calculatePriorityScore(factors)
         trend == determineTrend(fnArgs)
     IN fnResult' = <<[factors |-> factors, priority_score |-> priorityScore,
                       trend |-> trend,
                       explanation |-> generatePriorityExplanation(priorityScore, trend)]>>
  /\ UNCHANGED <<pipelineVars, fnArgs>>

NextScorer == Assess

SpecScorer == InitScorer /\ [][NextScorer]_vars

(***************************************************************************)
(* The Validator on its own: a raw text is validated, then the cleaned     *)
(* text of the answer is validated again.                                  *)
(***************************************************************************)

InitValidator ==
  /\ PipelineInit
  /\ fnArgs \in ValidatorTexts
  /\ fnResult = <<>>

\* The ingestion agent's answer for the raw text
Validate ==
  /\ Len(fnResult) = 0
  /\ fnResult' = <<IngestionOutput(fnArgs, "")>>
  /\ UNCHANGED <<pipelineVars, fnArgs>>

\* The ingestion agent's answer for its own cleaned text
Revalidate ==
  /\ Len(fnResult) = 1
  /\ fnResult' = Append(fnResult, IngestionOutput(fnResult[1].cleaned_text, ""))
  /\ UNCHANGED <<pipelineVars, fnArgs>>

NextValidator == Validate \/ Revalidate

SpecValidator == InitValidator /\ [][NextValidator]_vars

\* The text starts with one character, whichever it is, written six times
\* or more.
BeginsRepeated(text) ==
  /\ Len(text) >= 6
  /\ \A i \in 2..6 : CharAt(text, i) = CharAt(text, 1)

\* The reason of the first check that fails, "" when none does
FirstFailingCheck(text) ==
  IF Len(text) < 10 THEN ReasonTooShort
  ELSE IF Len(words(text)) < 3 THEN ReasonFewWords
  ELSE IF BeginsRepeated(text) THEN ReasonSpam
  ELSE ""

\* C7: the Validator reports the first failing check of: raw text shorter
\* than 10 characters (too short), fewer than 3 tokens after normalization
\* (insufficient content), raw text beginning with one character repeated 6
\* or more times (spam detected); a text that fails none is valid.
C7_FirstFailureWins ==
  Len(fnResult) >= 1 =>
    /\ fnResult[1].reason = FirstFailingCheck(fnArgs)
    /\ fnResult[1].is_valid = (FirstFailingCheck(fnArgs) = "")

\* The tokens of a cleaned text
Tokens(cleaned_text) == Range(split(cleaned_text))

\* C8 as stated: Scenario C is valid and its cleaned text contains water,
\* leaking, badly and house and none of is, near and my.
C8_ScenarioC_Stated ==
  (fnArgs = ScenarioC /\ Len(fnResult) >= 1) =>
    /\ fnResult[1].is_valid
    /\ {"water", "leaking", "badly", "house"} \subseteq Tokens(fnResult[1].cleaned_text)
    /\ Tokens(fnResult[1].cleaned_text) \cap {"is", "near", "my"} = {}

\* C8: Scenario C is valid and its cleaned text contains water, leaking,
\* badly and house and also near, which is no stop word, and neither is nor
\* my.
C8_ScenarioC ==
  (fnArgs = ScenarioC /\ Len(fnResult) >= 1) =>
    /\ fnResult[1].is_valid
    /\ {"water", "leaking", "badly", "house", "near"}
         \subseteq Tokens(fnResult[1].cleaned_text)
    /\ Tokens(fnResult[1].cleaned_text) \cap {"is", "my"} = {}

C8_Witness ==
  /\ fnArgs = ScenarioC
  /\ Len(fnResult) >= 1
  /\ fnResult[1].cleaned_text = "water leaking badly near house every single day"

\* C9: normalizing a cleaned text again yields the same token list: the
\* second pass removes no token.
C9_Idempotent ==
  Len(fnResult) = 2 =>
    split(fnResult[2].cleaned_text) = split(fnResult[1].cleaned_text)

\* A text the first pass has changed and left with several tokens
C9_Witness ==
  /\ Len(fnResult) = 2
  /\ fnResult[1].cleaned_text # fnArgs
  /\ Len(split(fnResult[1].cleaned_text)) >= 3
  /\ \E i \in 1..Len(fnArgs) : CharAt(fnArgs, i) \in {"T", "L"}

(***************************************************************************)
(* The Clustering Engine on its own                                        *)
(***************************************************************************)

InitKMeans ==
  /\ PipelineInit
  /\ fnArgs \in KMeansInputs
  /\ fnResult = <<>>

\* kMeansClustering(parsedComplaints, numClusters) under one draw of the seeds
Cluster ==
  /\ Len(fnResult) = 0
  /\ \E seeds \in Seeds(Len(fnArgs), numClusters(Len(fnArgs))) :
       fnResult' = <<kMeansClustering(KMeansComplaints(fnArgs),
                                      numClusters(Len(fnArgs)), seeds)>>
  /\ UNCHANGED <<pipelineVars, fnArgs>>

NextKMeans == Cluster

SpecKMeans == InitKMeans /\ [][NextKMeans]_vars

\* min(n, clamp(ceil(n / 3), 3, 8))
ClampedK(n) ==
  LET ceil == CHOOSE c \in 0..n : 3 * c >= n /\ 3 * (c - 1) < n
      clamp == IF ceil < 3 THEN 3 ELSE IF ceil > 8 THEN 8 ELSE ceil
  IN IF n < clamp THEN n ELSE clamp

\* The places (cluster, position) at which the complaint id is returned
Places(clusters, id) ==
  {ji \in (1..Len(clusters)) \X (1..Len(fnArgs)) :
     /\ ji[2] <= Len(clusters[ji[1]].complaints)
     /\ clusters[ji[1]].complaints[ji[2]].id = id}

\* C4: for n >= 1 complaints and every draw of the seeds the Clustering
\* Engine returns at most min(n, clamp(ceil(n/3), 3, 8)) clusters, none of
\* them empty, and every complaint in exactly one of them.
C4_Partition ==
  Len(fnResult) = 1 =>
    LET clusters == fnResult[1]
    IN /\ Len(clusters) <= ClampedK(Len(fnArgs))
       /\ \A j \in 1..Len(clusters) : Len(clusters[j].complaints) > 0
       /\ \A id \in 1..Len(fnArgs) : Cardinality(Places(clusters, id)) = 1

\* Four complaints, two seeds alike, and fewer clusters returned than seeded
C4_Witness ==
  /\ Len(fnArgs) = 4
  /\ Len(fnResult) = 1
  /\ Len(fnResult[1]) = 2
  /\ \E j \in 1..2 : Len(fnResult[1][j].complaints) = 3

(***************************************************************************)
(* The Priority Scorer on its own                                          *)
(***************************************************************************)

\* Numbers of complaints of a problem
PriorityCounts == {1, 2, 5, 10, 11, 10000000}

\* Means of the severity weights: 0 to the cap of 10
SeverityScores ==
  {[num |-> 0, den |-> 1], [num |-> 1, den |-> 2], [num |-> 7, den |-> 3],
   [num |-> 10, den |-> 1]}

\* Means of the recency weights, doubled: 0.5 to 3
RecencyScores ==
  {[num |-> 1, den |-> 2], [num |-> 3, den |-> 2], [num |-> 7, den |-> 4],
   [num |-> 6, den |-> 2]}

\* Largest numbers of complaints at one location
Densities == {1, 2, 5, 10, 11, 10000000}

\* The factors of a problem: no more complaints at one location than the
\* problem has
PriorityInputs ==
  UNION {{[complaint_count |-> n, severity_score |-> s, recency_score |-> r,
           location_density |-> 3 * Log10e4(d + 1)] :
            s \in SeverityScores, r \in RecencyScores,
            d \in {x \in Densities : x <= n}} : n \in PriorityCounts}

InitPriority ==
  /\ PipelineInit
  /\ fnArgs \in PriorityInputs
  /\ fnResult = <<>>

\* calculatePriorityScore(factors)
Score ==
  /\ Len(fnResult) = 0
  /\ fnResult' = <<calculatePriorityScore(fnArgs)>>
  /\ UNCHANGED <<pipelineVars, fnArgs>>

NextPriority == Score

SpecPriority == InitPriority /\ [][NextPriority]_vars

\* C6: the priority score is an integer between 0 and 100 for every
\* complaint count, severity score, recency score and location density.
C6_ScoreRange ==
  Len(fnResult) = 1 => fnResult[1] \in 0..100

\* A score the cap at 100 has cut, and one it has not
C6_Witness ==
  /\ Len(fnResult) = 1
  /\ fnArgs.complaint_count = 10000000
  /\ fnArgs.location_density = 3 * Log10e4(10000001)
  /\ fnArgs.severity_score.num = 10
  /\ fnResult[1] = 100

(***************************************************************************)
(* Properties of the pipeline                                              *)
(***************************************************************************)

\* The link rows of a complaint
LinksOf(complaint_id) == {l \in complaint_problems : l.complaint_id = complaint_id}

\* C1: with the calls run one at a time, every complaint id is in at most
\* one row of complaint_problems.
C1_OneLink ==
  \A i \in 1..Len(complaints) : Cardinality(LinksOf(i)) <= 1

\* Two complaints clustered, each with its link
C1_Witness ==
  /\ AllIdle
  /\ Len(analysis_runs) >= 1
  /\ Cardinality(complaint_problems) = 2
  /\ \A i \in 1..Len(complaints) : Cardinality(LinksOf(i)) = 1

\* The discovery agent's log entries, one per run, in the order of the runs
DiscoveryLogs == SelectSeq(agent_logs, LAMBDA l : l.agent_name = "discovery")

\* The k-th run had complaints to cluster: its discovery agent did not return
\* early.
Clustered(k) ==
  /\ k <= Len(DiscoveryLogs)
  /\ DiscoveryLogs[k].status = "completed"
  /\ "clusters_created" \in DOMAIN DiscoveryLogs[k].output_data

\* C2 as stated: after a completed run, with the calls run one at a time,
\* every problem row was inserted by the most recent completed run.
C2_Stated ==
  (AllIdle /\ Len(analysis_runs) >= 1) =>
    \A r \in problems : r.created_by = Len(analysis_runs)

\* C2: after a completed run, with the calls run one at a time, every problem
\* row was inserted by the most recent completed run that had complaints to
\* cluster; a run that has none leaves the rows of the earlier run in place.
C2_LastClusteringRun ==
  AllIdle =>
    \A r \in problems :
      /\ Clustered(r.created_by)
      /\ \A k \in (r.created_by + 1)..Len(analysis_runs) : ~Clustered(k)

\* A second run found nothing to cluster and the rows of the first are there
C2_Witness ==
  /\ AllIdle
  /\ Len(analysis_runs) = 2
  /\ problems # {}
  /\ \A r \in problems : r.created_by = 1
  /\ ~Clustered(2)

\* C3: nothing serializes two overlapping runs: a run that has read its
\* input can always take its delete-all steps and its link and status
\* writes, whatever the other run is doing, so that the steps interleave into
\* a state where problem rows of both runs coexist and a complaint holds two
\* links; two links of one complaint are to problems of different runs.
C3_NothingSerializes ==
  /\ \A p \in Procs :
       /\ pc[p] = "delete_problems" => ENABLED DeleteProblems(p)
       /\ pc[p] = "delete_links" => ENABLED DeleteLinks(p)
       /\ pc[p] = "insert_link" => ENABLED InsertLink(p)
       /\ pc[p] = "update_status" => ENABLED UpdateStatus(p)
  /\ \A l1, l2 \in complaint_problems :
       (l1.complaint_id = l2.complaint_id /\ l1.problem_id # l2.problem_id) =>
         \E r1, r2 \in problems :
           /\ r1.id = l1.problem_id
           /\ r2.id = l2.problem_id
           /\ r1.created_by # r2.created_by

\* Problem rows of both runs, and a complaint linked to two problems
C3_Witness ==
  /\ \E r1, r2 \in problems : r1.created_by = 1 /\ r2.created_by = 2
  /\ \E i \in 1..Len(complaints) : Cardinality(LinksOf(i)) = 2

\* The log entry written last is the explainability agent's: the last call
\* was a run and nothing has been logged since.
LastLogIsExplain ==
  /\ Len(agent_logs) >= 1
  /\ agent_logs[Len(agent_logs)].agent_name = "explainability"

\* A run is under way, or just over, that started with nothing submitted
\* since the run before it.
SuccessiveRun ==
  \E i \in 2..Len(agent_logs) :
    /\ agent_logs[i].agent_name = "discovery"
    /\ agent_logs[i - 1].agent_name = "explainability"
    /\ \A j \in (i + 1)..Len(agent_logs) :
         agent_logs[j].agent_name \in {"priority", "explainability"}

\* C5: a second run in succession, nothing submitted in between, leaves the
\* number of problem rows and the number of link rows what they were after
\* the first run: no step from the end of the first run to the end of the
\* second changes either number.
C5_SecondRunKeepsCounts ==
  [][((LastLogIsExplain /\ LastLogIsExplain') \/ SuccessiveRun') =>
       /\ Cardinality(problems') = Cardinality(problems)
       /\ Cardinality(complaint_problems') = Cardinality(complaint_problems)]_vars

\* Two runs in succession are over, and there are problems and links
C5_Witness ==
  /\ AllIdle
  /\ SuccessiveRun
  /\ Len(analysis_runs) = 2
  /\ analysis_runs[2].status = "completed"
  /\ problems # {}
  /\ complaint_problems # {}

\* C10: when the Validator rejects the text, submit answers success = false
\* with the reason and persists nothing: no complaint row, no call of the
\* understanding agent, and complaints, problems and complaint_problems
\* unchanged from the arrival of the request to its answer.
C10_RejectPersistsNothing ==
  [][\A p \in Procs :
       /\ (pc[p] = "idle" /\ pc'[p] = "ingestion") =>
            /\ <<complaints, problems, complaint_problems>>'
                 = <<complaints, problems, complaint_problems>>
            /\ \A i \in (Len(agent_logs) + 1)..Len(agent_logs') :
                 agent_logs'[i].agent_name = "ingestion"
       /\ (/\ pc[p] = "ingestion"
           /\ pc'[p] # "ingestion"
           /\ ~IngestionOutput(local[p].text, local[p].location).is_valid) =>
            /\ pc'[p] = "idle"
            /\ response' =
                 [status |-> 400, success |-> FALSE,
                  error |-> IngestionOutput(local[p].text, local[p].location).reason]
            /\ <<complaints, problems, complaint_problems>>'
                 = <<complaints, problems, complaint_problems>>
            /\ Len(agent_logs') = Len(agent_logs)]_vars

\* A submission rejected after one was accepted
C10_Witness ==
  /\ AllIdle
  /\ response = [status |-> 400, success |-> FALSE, error |-> ReasonTooShort]
  /\ Len(complaints) = 1
  /\ agent_logs[Len(agent_logs)].agent_name = "ingestion"

(***************************************************************************)
(* C11: the answer of submit_complaint                                     *)
(***************************************************************************)

\* The complaint rows with a given id
RowsOf(complaint_id) ==
  {i \in DOMAIN complaints : complaints[i].id = complaint_id}

\* The last answer is the success answer of submit_complaint
SubmitSucceeded == response.status = 200 /\ "complaint_id" \in DOMAIN response

\* C11: whenever submit_complaint has answered success with a complaint id, a
\* complaint row with that id exists and its fingerprint is persisted (not
\* null); the row was inserted with status processing.
C11_SuccessIsFingerprinted ==
  SubmitSucceeded =>
    /\ RowsOf(response.complaint_id) # {}
    /\ \A i \in RowsOf(response.complaint_id) :
         /\ complaints[i].embedding # NullEmbedding
         /\ complaints[i].status \in {"processing", "analyzed"}

(***************************************************************************)
(* C12: the order of the stages of analyze_all                             *)
(***************************************************************************)

StageNames == <<"discovery", "priority", "explainability">>

\* The log entry at index i is that of stage k and the entry before it is that
\* of stage k - 1, completed: the stage before had returned.
FollowsCompleted(i, k) ==
  /\ i > 1
  /\ agent_logs[i - 1].agent_name = StageNames[k - 1]
  /\ agent_logs[i - 1].status = "completed"

\* C12: within one analyze_all call the stages run in the order discovery,
\* priority, explainability: the log entry of a stage is created directly
\* after the completed entry of the stage before it, and once the discovery
\* stage has returned the next entry is the priority stage's.
C12_StagesInOrder ==
  \A i \in DOMAIN agent_logs :
    /\ agent_logs[i].agent_name = "priority" => FollowsCompleted(i, 2)
    /\ agent_logs[i].agent_name = "explainability" => FollowsCompleted(i, 3)
    /\ agent_logs[i].agent_name = "discovery" /\ i < Len(agent_logs)
         => agent_logs[i + 1].agent_name = "priority"
    /\ agent_logs[i].agent_name = "priority" /\ i < Len(agent_logs)
         => agent_logs[i + 1].agent_name = "explainability"

\* A run that clustered has finished its three stages.
C12_Witness ==
  /\ AllIdle
  /\ problems # {}
  /\ \E i \in DOMAIN agent_logs :
       /\ i + 2 = Len(agent_logs)
       /\ \A k \in 1..3 : /\ agent_logs[i + k - 1].agent_name = StageNames[k]
                          /\ agent_logs[i + k - 1].status = "completed"

(***************************************************************************)
(* C13: a stage of analyze_all fails                                       *)
(***************************************************************************)

StageReads == <<"discovery_read", "priority_read", "explain_read">>

\* The step at which stage k of the run in slot p fails: the call ends where
\* the stage would have read its input.
StageFails(p, k) == pc[p] = StageReads[k] /\ pc'[p] = "idle"

\* The step creates the log entry of stage k.
StageBegins(k) ==
  /\ Len(agent_logs') = Len(agent_logs) + 1
  /\ agent_logs'[Len(agent_logs')].agent_name = StageNames[k]

\* C13: when a stage of analyze_all fails, the error is returned to the
\* caller and every complaint, problem and link row stays as the stages
\* before it wrote it; no later stage of the call is invoked: a stage begins
\* only directly after the completed log entry of the stage before it.
C13_FailureAbortsKeepsRows ==
  [][/\ \A p \in Procs, k \in 1..3 :
          StageFails(p, k) =>
            /\ response' = Failure(StageNames[k] \o "-agent failed")
            /\ UNCHANGED <<complaints, problems, complaint_problems, analysis_runs>>
            /\ analysis_runs[local[p].run_id].status = "processing"
     /\ \A k \in 2..3 :
          StageBegins(k) =>
            /\ agent_logs # <<>>
            /\ agent_logs[Len(agent_logs)].agent_name = StageNames[k - 1]
            /\ agent_logs[Len(agent_logs)].status = "completed"]_vars

\* The priority stage has failed after the discovery stage clustered: the
\* problems, the links and the status changes of the discovery stage are there.
C13_Witness ==
  /\ AllIdle
  /\ response = Failure("priority-agent failed")
  /\ agent_logs[Len(agent_logs)].agent_name = "priority"
  /\ agent_logs[Len(agent_logs)].status = "running"
  /\ problems # {}
  /\ complaint_problems # {}
  /\ \E i \in DOMAIN complaints : complaints[i].status = "analyzed"

(***************************************************************************)
(* C14: the analysis_runs row of an analyze_all call                       *)
(***************************************************************************)

\* The number of complaints a discovery stage clustered, from the output of
\* its log entry
Considered(output_data) ==
  IF "total_complaints" \in DOMAIN output_data THEN output_data.total_complaints
  ELSE 0

\* The rows of analysis_runs other than row id are unchanged
OtherRunsUnchanged(id) ==
  \A k \in DOMAIN analysis_runs : k # id => analysis_runs'[k] = analysis_runs[k]

OtherLogsUnchanged(id) ==
  \A k \in DOMAIN agent_logs : k # id => agent_logs'[k] = agent_logs[k]

\* C15: every invocation of the validator writes one log entry whatever the
\* outcome: the entry is created when the agent is called, and when the agent
\* answers, accepting or rejecting for any of the three reasons, that entry
\* and no other is completed with the answer as its output snapshot.
C15_ValidatorAlwaysLogs ==
  [][\A p \in Procs :
       /\ pc[p] = "idle" /\ pc'[p] = "ingestion" =>
            /\ Len(agent_logs') = Len(agent_logs) + 1
            /\ agent_logs'[Len(agent_logs')].agent_name = "ingestion"
            /\ agent_logs'[Len(agent_logs')].input_data =
                 [text |-> local'[p].text, location |-> local'[p].location]
            /\ local'[p].log_id = Len(agent_logs')
            /\ OtherLogsUnchanged(Len(agent_logs'))
       /\ pc[p] = "ingestion" /\ pc'[p] # "ingestion" =>
            LET output == IngestionOutput(local[p].text, local[p].location)
                entry == agent_logs'[local[p].log_id]
            IN /\ Len(agent_logs') = Len(agent_logs)
               /\ entry.agent_name = "ingestion"
               /\ entry.status = "completed"
               /\ entry.output_data = output
               /\ \/ output.is_valid /\ pc'[p] = "insert_complaint"
                  \/ /\ output.reason \in {ReasonTooShort, ReasonFewWords, ReasonSpam}
                     /\ pc'[p] = "idle"
                     /\ response'.error = output.reason
               /\ OtherLogsUnchanged(local[p].log_id)]_vars

\* The log holds the completed entries of two rejections for different reasons.
C15_Witness ==
  /\ AllIdle
  /\ \E i, j \in DOMAIN agent_logs :
       /\ agent_logs[i].agent_name = "ingestion"
       /\ agent_logs[i].status = "completed"
       /\ agent_logs[i].output_data.reason = ReasonSpam
       /\ agent_logs[j].agent_name = "ingestion"
       /\ agent_logs[j].status = "completed"
       /\ agent_logs[j].output_data.reason = ReasonFewWords

(***************************************************************************)
(* C16: a complaint fingerprinted after the clustering stage read          *)
(***************************************************************************)

\* The ids of the complaints the run in flight read as its clustering input
RunInput ==
  UNION {Range(local[RunSlot].clusters[j].members) :
           j \in DOMAIN local[RunSlot].clusters}

\* The clustering stage of the run in flight has read its input
PastRead == pc[RunSlot] \notin {"idle", "count_processing", "discovery_read"}

\* The complaints the select of the clustering stage yields
Pending ==
  {complaints[i].id : i \in {k \in DOMAIN complaints :
      complaints[k].embedding # NullEmbedding /\ complaints[k].status = "processing"}}

\* C16: a complaint that was not in the input the clustering stage of a run
\* read (its fingerprint was persisted later) is not assigned by that run: no
\* step of the run changes its status or links it, and when the run finishes
\* it is in status processing without a link.  The next run whose clustering
\* stage reads takes every fingerprinted complaint in status processing as
\* its input, and when that stage returns each is analyzed and linked to a
\* problem.
C16_PickedUpByNextRun ==
  [][/\ PastRead =>
          \A i \in DOMAIN complaints :
            complaints[i].id \notin RunInput =>
              /\ complaints'[i].status = complaints[i].status
              /\ \A l \in complaint_problems' \ complaint_problems :
                   l.complaint_id # complaints[i].id
     /\ pc[RunSlot] = "complete_run" /\ pc'[RunSlot] = "idle" =>
          \A i \in DOMAIN complaints :
            complaints[i].id \notin RunInput /\ complaints[i].status = "processing" =>
              /\ LinksOf(complaints[i].id) = {}
              /\ complaints'[i].status = "processing"
     /\ pc[RunSlot] = "discovery_read" /\ pc'[RunSlot] = "delete_problems" =>
          UNION {Range(local'[RunSlot].clusters[j].members) :
                   j \in DOMAIN local'[RunSlot].clusters} = Pending
     /\ pc[RunSlot] = "discovery_read" /\ pc'[RunSlot] = "priority_read" =>
          Pending = {}
     /\ pc[RunSlot] = "discovery_finish" /\ pc'[RunSlot] = "priority_read" =>
          \A id \in RunInput :
            /\ complaints[id].status = "analyzed"
            /\ \E l \in LinksOf(id) : \E r \in problems :
                 r.id = l.problem_id /\ r.created_by = local[RunSlot].run_id]_vars

\* A complaint whose understanding agent was called after the first run's
\* clustering stage had read, and before the second run's, is analyzed and
\* linked to a problem of the second run; the first run inserted no problem
\* for it.
C16_Witness ==
  /\ AllIdle
  /\ Len(analysis_runs) = 2
  /\ \E a, u, b \in DOMAIN agent_logs :
       /\ a < u /\ u < b
       /\ agent_logs[a].agent_name = "discovery"
       /\ agent_logs[u].agent_name = "understanding"
       /\ agent_logs[b].agent_name = "discovery"
       /\ LET id == agent_logs[u].input_data.complaint_id
          IN /\ complaints[id].status = "analyzed"
             /\ \E l \in LinksOf(id) : \E r \in problems :
                  r.id = l.problem_id /\ r.created_by = 2

(***************************************************************************)
(* C17: complaints are never deleted                                       *)
(***************************************************************************)

\* C17: no step of a submission, of an analysis run with its stages or of a
\* read query deletes a complaint row: every row stays in its place with its
\* id, so the set of complaint ids only grows.
C17_ComplaintsOnlyGrow ==
  [][/\ Len(complaints') >= Len(complaints)
     /\ \A i \in DOMAIN complaints : complaints'[i].id = complaints[i].id
     /\ {complaints[i].id : i \in DOMAIN complaints}
          \subseteq {complaints'[i].id : i \in DOMAIN complaints'}]_vars

\* A second run that clusters has deleted the problems and the links of the
\* first; both complaints are there.
C17_Witness ==
  /\ \E p \in Procs : pc[p] = "insert_problem"
  /\ problem_seq > 0
  /\ problems = {}
  /\ complaint_problems = {}
  /\ Len(complaints) = 2
  /\ \E i \in DOMAIN complaints : complaints[i].status = "analyzed"

(***************************************************************************)
(* C18: the order of the problem list in an answer                         *)
(***************************************************************************)

\* The last answer lists problems: that of get_problems or of analyze_all
ListsProblems == response.status = 200 /\ "problems" \in DOMAIN response

\* C18: the problem list answered by get_problems and by a successful
\* analyze_all is ordered by priority_score descending: of two adjacent
\* entries the earlier one's score is greater than or equal to the later one's.
C18_ListedByPriority ==
  ListsProblems =>
    \A i \in 1..(Len(response.problems) - 1) :
      response.problems[i].priority_score >= response.problems[i + 1].priority_score

\* get_problems has answered two problems of different scores, the one
\* inserted later first.
C18_Witness ==
  /\ ListsProblems
  /\ "run_id" \notin DOMAIN response
  /\ Len(response.problems) = 2
  /\ response.problems[1].priority_score > response.problems[2].priority_score
  /\ response.problems[1].id > response.problems[2].id

(***************************************************************************)
(* C19, C20: what the priority and the explainability agent change         *)
(***************************************************************************)

\* The problem rows are the same rows before and after the step, and each
\* agrees with itself on the given fields.
ProblemsKeep(fields) ==
  /\ {r.id : r \in problems'} = {r.id : r \in problems}
  /\ Cardinality(problems') = Cardinality(problems)
  /\ \A r \in problems : \E s \in problems' :
       /\ s.id = r.id
       /\ \A f \in fields : s[f] = r[f]

\* A step of the priority agent
PriorityStep(p) == pc[p] \in {"priority_read", "priority_problem", "priority_finish"}

\* C19: an invocation of the priority agent changes only priority_score, trend
\* and complaint_count of problem rows: description, keywords and title of
\* every problem, every link row and every complaint row are unchanged.
C19_PriorityWritesOnlyItsFields ==
  [][\A p \in Procs :
       PriorityStep(p) /\ pc'[p] # pc[p] =>
         /\ ProblemsKeep({"id", "title", "description", "keywords", "cluster_id"})
         /\ UNCHANGED <<complaints, complaint_problems>>]_vars

\* The priority agent has scored a problem that carries the description and
\* the keywords of an earlier run.
C19_Witness ==
  \E p \in Procs :
    /\ pc[p] = "priority_finish"
    /\ local[p].updated > 0
    /\ \E r \in problems :
         /\ r.description # ""
         /\ r.keywords # <<>>
         /\ r.priority_score > 0

\* The narrative as the specification words it: the message of the tier of the score,
\* then the sentence of the trend
TierMessage(score) ==
  CASE score >= 80 -> "CRITICAL PRIORITY: Requires immediate attention"
    [] score >= 60 /\ score < 80 -> "HIGH PRIORITY: Should be addressed soon"
    [] score >= 40 /\ score < 60 ->
         "MEDIUM PRIORITY: Needs attention within reasonable timeframe"
    [] score < 40 -> "LOW PRIORITY: Can be scheduled for later"

TrendSentence(trend) ==
  CASE trend = "rising" -> ". Problem is escalating and may worsen if not addressed."
    [] trend = "falling" -> ". Problem appears to be improving or resolving."
    [] OTHER -> ". Problem is stable at current levels."

\* A step of the explainability agent
ExplainStep(p) == pc[p] \in {"explain_read", "explain_problem", "explain_finish"}

\* C20: an invocation of the explainability agent changes only description
\* and keywords of problem rows, leaving priority_score, trend,
\* complaint_count and title unchanged; a description it writes is the tier
\* message of the row's stored priority_score (>= 80, >= 60, >= 40, else)
\* followed by the sentence of its stored trend, and that is what
\* generatePriorityExplanation answers for every score and trend.
C20_ExplainWritesNarrative ==
  [][/\ \A p \in Procs :
          ExplainStep(p) /\ pc'[p] # pc[p] =>
            /\ ProblemsKeep({"id", "title", "priority_score", "trend",
                             "complaint_count", "cluster_id"})
            /\ UNCHANGED <<complaints, complaint_problems>>
            /\ \A r \in problems : \A s \in problems' :
                 s.id = r.id /\ s # r =>
                   s.description = TierMessage(r.priority_score) \o TrendSentence(r.trend)
     /\ fnResult' # fnResult =>
          fnResult'[1].explanation =
            TierMessage(fnResult'[1].priorityScore) \o TrendSentence(fnResult'[1].trend)]_vars

\* The explainability agent has written the narrative and the keywords of a
\* scored problem.
C20_Witness ==
  \E p \in Procs :
    /\ pc[p] = "explain_finish"
    /\ local[p].updated > 0
    /\ \E r \in problems :
         /\ r.priority_score > 0
         /\ r.keywords # <<>>
         /\ r.description = TierMessage(r.priority_score) \o TrendSentence(r.trend)

(***************************************************************************)
(* C21: the trend of a problem with one complaint                          *)
(***************************************************************************)

\* C21: a problem with exactly one linked complaint is given trend stable,
\* whatever the complaint's age or text.
C21_OneComplaintIsStable ==
  Len(fnResult) = 1 /\ Len(fnArgs) = 1 => fnResult[1].trend = "stable"

\* A problem whose one complaint was made today and names urgent keywords
C21_Witness ==
  /\ Len(fnResult) = 1
  /\ Len(fnArgs) = 1
  /\ fnArgs[1].created_at = now
  /\ fnResult[1].factors.severity_score.num > 0
  /\ fnResult[1].trend = "stable"

(***************************************************************************)
(* C22: Scenario E                                                         *)
(***************************************************************************)

\* The complaints are 10, none contains a severity keyword, all are older
\* than 7 days and all are in one location.
IsScenarioE(cs) ==
  /\ Len(cs) = 10
  /\ \A i \in DOMAIN cs :
       /\ \A k \in urgentKeywords \cup importantKeywords :
            ~includes(toLowerCase(cs[i].cleaned_text), k)
       /\ now - cs[i].created_at > 7
       /\ cs[i].location # ""
       /\ cs[i].location = cs[1].location

\* The text begins with the prefix
StartsWith(text, prefix) ==
  Len(text) >= Len(prefix) /\ SubSeq(text, 1, Len(prefix)) = prefix

\* C22: a problem with 10 linked complaints, none containing a severity
\* keyword, all older than 7 days and all in one location gets severity_score
\* 0, recency_score 0.5 and priority_score 44, which the narrative labels
\* MEDIUM (a score of at least 40 and below 60).
C22_ScenarioE ==
  Len(fnResult) = 1 /\ IsScenarioE(fnArgs) =>
    /\ fnResult[1].factors.severity_score.num = 0
    /\ 2 * fnResult[1].factors.recency_score.num = fnResult[1].factors.recency_score.den
    /\ fnResult[1].priority_score = 44
    /\ fnResult[1].priority_score >= 40 /\ fnResult[1].priority_score < 60
    /\ StartsWith(fnResult[1].explanation, "MEDIUM PRIORITY")

\* Scenario E with complaints of two days has been scored.
C22_Witness ==
  /\ Len(fnResult) = 1
  /\ IsScenarioE(fnArgs)
  /\ fnArgs[1].created_at # fnArgs[10].created_at
  /\ fnResult[1].factors.complaint_count = 10
  /\ fnResult[1].priority_score = 44

(***************************************************************************)
(* C23: a storage operation of the clustering stage fails                  *)
(***************************************************************************)

\* The ids of the complaints the run in slot p read as its clustering input
InputOf(p) ==
  UNION {Range(local[p].clusters[j].members) : j \in DOMAIN local[p].clusters}

\* The clustering stage of the run in slot p has clustered and returned
\* success: the orchestrator is about to call the priority agent.
ClusteringSucceeded(p) == pc[p] = "priority_read" /\ local[p].clusters # <<>>

\* C23: a failed problem insert, link insert or status update is fatal for
\* the clustering stage: the stage returns success only when every cluster
\* has its problem row and every complaint of its input is linked and
\* analyzed.
C23_StorageFailureIsFatal ==
  \A p \in Procs :
    ClusteringSucceeded(p) =>
      /\ local[p].created = Len(local[p].clusters)
      /\ \A id \in InputOf(p) :
           /\ LinksOf(id) # {}
           /\ complaints[id].status = "analyzed"

(***************************************************************************)
(* C24: the rows right after the clustering stage                          *)
(***************************************************************************)

\* The link rows of a problem
LinksTo(problem_id) == {l \in complaint_problems : l.problem_id = problem_id}

\* C24: right after a clustering stage that had at least one input complaint
\* (and no storage failure) the problem rows correspond one-to-one to the
\* surviving clusters, each with complaint_count equal to its number of link
\* rows (at least 1), priority_score 0, trend stable and no keywords; every
\* input complaint has exactly one link, with confidence 0.8, and status
\* analyzed.
C24_RowsAfterClustering ==
  \A p \in Procs :
    ClusteringSucceeded(p) =>
      /\ Cardinality(problems) = Len(local[p].clusters)
      /\ \A j \in DOMAIN local[p].clusters :
           \E r \in problems :
             /\ r.cluster_id = local[p].clusters[j].id
             /\ {l.complaint_id : l \in LinksTo(r.id)}
                  = Range(local[p].clusters[j].members)
      /\ \A r \in problems :
           /\ r.complaint_count = Cardinality(LinksTo(r.id))
           /\ r.complaint_count >= 1
           /\ r.priority_score = 0
           /\ r.trend = "stable"
           /\ r.keywords = <<>>
      /\ \A id \in InputOf(p) :
           /\ Cardinality(LinksOf(id)) = 1
           /\ \A l \in LinksOf(id) : l.confidence = Confidence
           /\ complaints[id].status = "analyzed"

\* The clustering stage has returned with two clusters of one complaint each.
C24_Witness ==
  \E p \in Procs :
    /\ ClusteringSucceeded(p)
    /\ Len(local[p].clusters) = 2
    /\ Cardinality(problems) = 2
    /\ Cardinality(complaint_problems) = 2

(***************************************************************************)
(* C25, C27: the trend of a problem with two complaints or more            *)
(***************************************************************************)

\* The k-th smallest timestamp of the complaints
KthTime(cs, k) ==
  CHOOSE t \in {cs[i].created_at : i \in DOMAIN cs} :
    /\ Cardinality({i \in DOMAIN cs : cs[i].created_at < t}) < k
    /\ Cardinality({i \in DOMAIN cs : cs[i].created_at <= t}) >= k

\* The sum of the timestamps from the a-th to the b-th smallest
TimeSum(cs, a, b) == SumSeq([k \in 1..(b - a + 1) |-> KthTime(cs, a + k - 1)])

\* The trend as the specification words it, for n >= 2 complaints: first is
\* floor(n / 2), second the rest; the growth ratio is second / first, the gap
\* is the difference of the halves' average timestamps and the expected gap
\* is half of the time elapsed since the earliest complaint.  The
\* comparisons are multiplied through by their denominators.
StatedTrend(cs) ==
  LET n == Len(cs)
      first == n \div 2
      second == n - first
      ratioAbove13 == 10 * second > 13 * first
      ratioBelow07 == 10 * second < 7 * first
      gapBelow == 20 * (TimeSum(cs, first + 1, n) * first - TimeSum(cs, 1, first) * second)
                    < 7 * (now - KthTime(cs, 1)) * first * second
      rising == ratioAbove13 /\ gapBelow
  IN IF rising THEN "rising"
     ELSE IF ratioBelow07 THEN "falling"
     ELSE "stable"

\* C25: for a problem with n >= 2 linked complaints the trend is rising
\* exactly when |second| / |first| > 1.3 and the gap between the halves'
\* average timestamps is below 0.7 times half of the time elapsed since the
\* earliest complaint; falling exactly when it is not rising and
\* |second| / |first| < 0.7; otherwise stable.
C25_TrendRule ==
  Len(fnResult) = 1 /\ Len(fnArgs) >= 2 => fnResult[1].trend = StatedTrend(fnArgs)

\* Three complaints, not in the order of their timestamps, give a rising trend.
C25_Witness ==
  /\ Len(fnResult) = 1
  /\ Len(fnArgs) = 3
  /\ fnArgs[1].created_at > fnArgs[2].created_at
  /\ fnArgs[2].created_at < fnArgs[3].created_at
  /\ fnResult[1].trend = "rising"

\* C27: the priority agent never produces trend falling: the second half of
\* the complaints sorted by time starts at index floor(n / 2), so it is never
\* smaller than the first half and the growth ratio is at least 1.
C27_NeverFalling ==
  Len(fnResult) = 1 =>
    /\ fnResult[1].trend \in {"stable", "rising"}
    /\ Len(fnArgs) >= 2 =>
         /\ Len(fnArgs) - Len(fnArgs) \div 2 >= Len(fnArgs) \div 2
         /\ StatedTrend(fnArgs) # "falling"

\* Five complaints of which four are 30 days old and one was made today: the
\* activity has ebbed and the trend is not falling.
C27_Witness ==
  /\ Len(fnResult) = 1
  /\ Len(fnArgs) = 5
  /\ Cardinality({i \in DOMAIN fnArgs : fnArgs[i].created_at = 0}) = 4
  /\ Cardinality({i \in DOMAIN fnArgs : fnArgs[i].created_at = now}) = 1
  /\ fnResult[1].trend # "falling"

(***************************************************************************)
(* C26: the links of the complaints analyzed by an earlier run             *)
(***************************************************************************)

\* C26: after any sequence of submit_complaint and analyze_all calls that run
\* one at a time and complete, every complaint with status analyzed has
\* exactly one link row, the complaints analyzed by an earlier run than the
\* most recent one included.
C26_AnalyzedKeepsItsLink ==
  AllIdle =>
    \A i \in DOMAIN complaints :
      complaints[i].status = "analyzed" =>
        Cardinality(LinksOf(complaints[i].id)) = 1

(***************************************************************************)
(* C28: the status failed                                                  *)
(***************************************************************************)

\* The log entry k, or the run row k, belongs to a request in flight
LogInFlight(k) == \E p \in Procs : pc[p] # "idle" /\ local[p].log_id = k

RunInFlight(k) == \E p \in Procs : pc[p] # "idle" /\ local[p].run_id = k

\* C28: no operation writes the status failed: every log entry is running or
\* completed and every run row processing or completed.  When a stage throws
\* after it created its log entry the entry is left running and the run row
\* processing, and no later step changes an entry or a run row that a failed
\* request left so.
C28_NeverFailed ==
  [][/\ \A k \in DOMAIN agent_logs' : agent_logs'[k].status \in {"running", "completed"}
     /\ \A k \in DOMAIN analysis_runs' :
          analysis_runs'[k].status \in {"processing", "completed"}
     /\ \A p \in Procs, k \in 1..3 :
          StageFails(p, k) =>
            /\ agent_logs'[Len(agent_logs')].agent_name = StageNames[k]
            /\ agent_logs'[Len(agent_logs')].status = "running"
            /\ analysis_runs'[local[p].run_id].status = "processing"
            /\ \A q \in Procs :
                 pc'[q] # "idle" =>
                   /\ local'[q].log_id # Len(agent_logs')
                   /\ local'[q].run_id # local[p].run_id
     /\ \A k \in DOMAIN agent_logs :
          agent_logs[k].status = "running" /\ ~LogInFlight(k) =>
            agent_logs'[k] = agent_logs[k]
     /\ \A k \in DOMAIN analysis_runs :
          analysis_runs[k].status = "processing" /\ ~RunInFlight(k) =>
            analysis_runs'[k] = analysis_runs[k]]_vars

\* A run whose priority stage threw is followed by a run that completed: the
\* log entry of the stage is still running and its run row still processing.
C28_Witness ==
  /\ AllIdle
  /\ Len(analysis_runs) = 2
  /\ analysis_runs[1].status = "processing"
  /\ analysis_runs[2].status = "completed"
  /\ \E k \in DOMAIN agent_logs :
       /\ k < Len(agent_logs)
       /\ agent_logs[k].agent_name = "priority"
       /\ agent_logs[k].status = "running"

\* The ids of the problem rows
ProblemIds == {r.id : r \in problems}

\* The run in slot p is past a clustering stage that found no input
EmptyRun(p) ==
  /\ pc[p] \in {"priority_read", "priority_problem", "priority_finish",
                "explain_read", "explain_problem", "explain_finish",
                "select_problems", "complete_run"}
  /\ local[p].clusters = <<>>

\* The two entries logged last are completed entries of the priority and of
\* the explainability agent; each went through every problem row, or found
\* none and said so
ScoredAndExplained ==
  /\ Len(agent_logs) >= 3
  /\ LET n == Len(agent_logs)
     IN /\ agent_logs[n - 2].agent_name = "discovery"
        /\ agent_logs[n - 1].agent_name = "priority"
        /\ agent_logs[n - 1].status = "completed"
        /\ agent_logs[n].agent_name = "explainability"
        /\ agent_logs[n].status = "completed"
        /\ IF problems = {}
           THEN /\ agent_logs[n - 1].output_data =
                     [message |-> "No problems to prioritize"]
                /\ agent_logs[n].output_data =
                     [message |-> "No problems to explain"]
           ELSE /\ agent_logs[n - 1].output_data.problems_updated =
                     Cardinality(problems)
                /\ agent_logs[n].output_data.explanations_generated =
                     Cardinality(problems)

\* C29: when the clustering stage of a run finds no fingerprinted complaint
\* in status processing, it deletes and inserts nothing and hands over to the
\* priority stage; no later step of that run changes the set of problem ids
\* or the link rows; and when the run ends the priority and the
\* explainability agent have each gone through every existing problem and
\* the run row is completed.
C29_EmptyInputRun ==
  [][\A p \in Procs :
       /\ (pc[p] = "discovery_read" /\ Pending = {}) =>
            /\ pc'[p] = "priority_read"
            /\ EmptyRun(p)'
            /\ problems' = problems
            /\ complaint_problems' = complaint_problems
            /\ problem_seq' = problem_seq
       /\ EmptyRun(p) =>
            /\ {r.id : r \in problems'} = ProblemIds
            /\ complaint_problems' = complaint_problems
            /\ pc'[p] = "idle" =>
                 /\ ScoredAndExplained'
                 /\ analysis_runs'[local[p].run_id].status = "completed"
                 /\ response'.status = 200]_vars

\* A run that found nothing to cluster has ended; it scored and explained
\* the problems an earlier run had discovered
C29_Witness ==
  /\ AllIdle
  /\ problems # {}
  /\ complaint_problems # {}
  /\ Len(analysis_runs) = 2
  /\ analysis_runs[2].status = "completed"
  /\ ScoredAndExplained
  /\ agent_logs[Len(agent_logs) - 2].status = "completed"
  /\ agent_logs[Len(agent_logs) - 2].output_data =
       [message |-> "No complaints to cluster"]

\* The complaints in the clusters of the run in slot p
RunMembers(p) ==
  UNION {Range(local[p].clusters[j].members) : j \in DOMAIN local[p].clusters}

\* C30: a complaint is stored in status processing, its status is only ever
\* processing or analyzed, and once analyzed it stays analyzed.  The
\* clustering stage takes only complaints in status processing into its
\* clusters, a link is only ever inserted by a run for a member of its
\* clusters that is still in status processing, and when the stage finishes
\* every member is analyzed: so with runs one after the other a complaint is
\* assigned by at most one run and is not clustered again.
C30_AssignedOnce ==
  [][/\ \A i \in DOMAIN complaints :
          /\ complaints'[i].status \in {"processing", "analyzed"}
          /\ complaints[i].status = "analyzed" => complaints'[i].status = "analyzed"
     /\ \A i \in DOMAIN complaints' \ DOMAIN complaints :
          complaints'[i].status = "processing"
     /\ \A l \in complaint_problems' \ complaint_problems :
          /\ complaints[l.complaint_id].status = "processing"
          /\ \E p \in Procs :
               pc[p] = "insert_link" /\ l.complaint_id \in RunMembers(p)
     /\ \A p \in Procs :
          /\ pc[p] = "discovery_read" =>
               \A id \in RunMembers(p)' : complaints[id].status = "processing"
          /\ pc[p] = "discovery_finish" =>
               \A id \in RunMembers(p) : complaints'[id].status = "analyzed"]_vars

\* Two runs have each clustered a complaint: the complaint the first run
\* analyzed is still analyzed and the second run did not assign it
C30_Witness ==
  /\ AllIdle
  /\ Len(analysis_runs) = 2
  /\ analysis_runs[1].total_complaints = 1
  /\ analysis_runs[2].total_complaints = 1
  /\ Len(complaints) = 2
  /\ \A i \in DOMAIN complaints : complaints[i].status = "analyzed"
  /\ \E r \in problems : r.created_by = 2
  /\ \A l \in complaint_problems : l.complaint_id = 2
  /\ complaint_problems # {}

=============================================================================
